---- MODULE Spec2Model ----
(***************************************************************************)
(* Model of the dealer-to-prospect matching pipeline of woodhouse_creative *)
(* (scripts/match-allied-to-prospects.py): the normalisers, the index      *)
(* construction over the prospect pool and the matching cascade.           *)
(*                                                                         *)
(* Python values are represented as follows.  A str is a TLA+ string, a    *)
(* dict is a record (a function on its keys), a list is a sequence, a set  *)
(* is a set, and None is the reserved token None below, which no input     *)
(* string of the model equals.  dict.get(k) is Get(d, k).                  *)
(***************************************************************************)
EXTENDS Integers, Sequences, FiniteSets, TLC

----------------------------------------------------------------------------
(* Python values *)

None == "<None>"

Get(d, k) == IF k \in DOMAIN d THEN d[k] ELSE None

\* Python truthiness of a value that is None or a str
Truthy(v) == v /= None /\ v /= ""

\* `v or ""`
OrEmpty(v) == IF Truthy(v) THEN v ELSE ""

----------------------------------------------------------------------------
(* str methods, character by character *)

Ch(s, k) == SubSeq(s, k, k)

UpperChars == "ABCDEFGHIJKLMNOPQRSTUVWXYZ"
LowerChars == "abcdefghijklmnopqrstuvwxyz"
DigitChars == "0123456789"

CharsOf(s) == {Ch(s, k) : k \in 1..Len(s)}

UpperSet == CharsOf(UpperChars)
LowerSet == CharsOf(LowerChars)
DigitSet == CharsOf(DigitChars)

InStr(c, s) == c \in CharsOf(s)

IsDigit(c) == c \in DigitSet
IsSpace(c) == c \in {" ", "\t", "\n", "\r"}
\* \w of a str pattern, on the ASCII range
IsWord(c) == c \in LowerSet \/ c \in UpperSet \/ c \in DigitSet \/ c = "_"

LowerOf == [c \in UpperSet |->
              Ch(LowerChars, CHOOSE k \in 1..Len(UpperChars) : Ch(UpperChars, k) = c)]
UpperOf == [c \in LowerSet |->
              Ch(UpperChars, CHOOSE k \in 1..Len(LowerChars) : Ch(LowerChars, k) = c)]

LowerCh(c) == IF c \in UpperSet THEN LowerOf[c] ELSE c

UpperCh(c) == IF c \in LowerSet THEN UpperOf[c] ELSE c

RECURSIVE lower(_)
lower(s) == IF s = "" THEN "" ELSE LowerCh(Ch(s, 1)) \o lower(Tail(s))

RECURSIVE upper(_)
upper(s) == IF s = "" THEN "" ELSE UpperCh(Ch(s, 1)) \o upper(Tail(s))

RECURSIVE lstrip(_)
lstrip(s) == IF s /= "" /\ IsSpace(Ch(s, 1)) THEN lstrip(Tail(s)) ELSE s

RECURSIVE rstrip(_)
rstrip(s) ==
    IF s /= "" /\ IsSpace(Ch(s, Len(s))) THEN rstrip(SubSeq(s, 1, Len(s) - 1)) ELSE s

strip(s) == rstrip(lstrip(s))

startswith(s, pre) == Len(s) >= Len(pre) /\ SubSeq(s, 1, Len(pre)) = pre

\* s[n:]
Drop(s, n) == SubSeq(s, n + 1, Len(s))

\* position of the first character of s that is in the string chars, 0 if none
FirstOf(s, chars) ==
    IF \E k \in 1..Len(s) : InStr(Ch(s, k), chars)
    THEN CHOOSE k \in 1..Len(s) :
            /\ InStr(Ch(s, k), chars)
            /\ \A j \in 1..(k - 1) : ~InStr(Ch(s, j), chars)
    ELSE 0

\* position of the last character of s that is in the string chars, 0 if none
LastOf(s, chars) ==
    IF \E k \in 1..Len(s) : InStr(Ch(s, k), chars)
    THEN CHOOSE k \in 1..Len(s) :
            /\ InStr(Ch(s, k), chars)
            /\ \A j \in (k + 1)..Len(s) : ~InStr(Ch(s, j), chars)
    ELSE 0

----------------------------------------------------------------------------
(* Normalization *)

\* re.sub(r"\D", "", s)
RECURSIVE OnlyDigits(_)
OnlyDigits(s) ==
    IF s = "" THEN ""
    ELSE (IF IsDigit(Ch(s, 1)) THEN Ch(s, 1) ELSE "") \o OnlyDigits(Tail(s))

PhoneLen == 10

\* faulty variant of normalize_phone: the leading country code is kept
normalize_phone_keeps_country_code(raw) ==
    IF ~Truthy(raw) THEN None
    ELSE LET digits == OnlyDigits(raw)
         IN  IF Len(digits) = PhoneLen THEN digits ELSE None

normalize_phone(raw) ==
    IF ~Truthy(raw) THEN None
    ELSE LET digits0 == OnlyDigits(raw)
             digits  == IF Len(digits0) = PhoneLen + 1 /\ startswith(digits0, "1")
                        THEN Drop(digits0, 1) ELSE digits0
         IN  IF Len(digits) = PhoneLen THEN digits ELSE None

\* urlparse(s).hostname or "", for s without brackets, tabs or newlines:
\* the scheme is the text before the first ":" when it is a letter followed by
\* letters, digits, "+", "-" or "."; the netloc follows "//" up to the first
\* of "/", "?" and "#"; the hostname is the netloc after its last "@" and
\* before its first ":", lowercased.
SchemeSet == LowerSet \cup UpperSet \cup DigitSet \cup {"+", "-", "."}

urlparse_hostname(s) ==
    LET colon   == FirstOf(s, ":")
        hasSch  == /\ colon > 1
                   /\ Ch(s, 1) \in LowerSet \cup UpperSet
                   /\ \A k \in 1..(colon - 1) : Ch(s, k) \in SchemeSet
        rest    == IF hasSch THEN Drop(s, colon) ELSE s
        afterSl == Drop(rest, 2)
        stop    == FirstOf(afterSl, "/?#")
        netloc  == IF startswith(rest, "//")
                   THEN (IF stop = 0 THEN afterSl ELSE SubSeq(afterSl, 1, stop - 1))
                   ELSE ""
        hostinfo == Drop(netloc, LastOf(netloc, "@"))
        portAt  == FirstOf(hostinfo, ":")
        host    == IF portAt = 0 THEN hostinfo ELSE SubSeq(hostinfo, 1, portAt - 1)
    IN  lower(host)

MinHostLen == 4

extract_domain(raw) ==
    IF ~Truthy(raw) THEN None
    ELSE LET s0    == lower(strip(raw))
             s     == IF startswith(s0, "http") THEN s0 ELSE "http://" \o s0
             host0 == urlparse_hostname(s)
             host  == IF startswith(host0, "www.") THEN Drop(host0, 4) ELSE host0
         IN  IF ~InStr(".", host) \/ Len(host) < MinHostLen THEN None ELSE host

normalize_state(raw) ==
    IF ~Truthy(raw) THEN None
    ELSE LET s == upper(strip(raw))
         IN  IF startswith(s, "US-") THEN Drop(s, 3) ELSE s

\* The alternatives of SUFFIX_PATTERN that begin and end with a word
\* character ("a/?c" is "a/c" or "ac"); "&" is handled in SuffixMatchLen.
SuffixWords ==
    { "inc", "incorporated", "llc", "ltd", "limited", "corp", "corporation",
      "co", "company", "enterprises", "enterprise", "services", "service",
      "heating", "cooling", "air conditioning", "a/c", "ac", "hvac",
      "plumbing", "mechanical", "and" }

\* \b(w)\b at position k of s, for w in SuffixWords
WordAt(s, k, w) ==
    /\ k + Len(w) - 1 <= Len(s)
    /\ SubSeq(s, k, k + Len(w) - 1) = w
    /\ (k = 1 \/ ~IsWord(Ch(s, k - 1)))
    /\ (k + Len(w) > Len(s) \/ ~IsWord(Ch(s, k + Len(w))))

\* \b&\b at position k of s: "&" is no word character, so both boundaries
\* need a word character next to it
AmpAt(s, k) ==
    /\ Ch(s, k) = "&"
    /\ k > 1 /\ IsWord(Ch(s, k - 1))
    /\ k < Len(s) /\ IsWord(Ch(s, k + 1))

\* length of the match of SUFFIX_PATTERN that starts at position k, 0 if none
SuffixMatchLen(s, k) ==
    IF \E w \in SuffixWords : WordAt(s, k, w)
    THEN LET w == CHOOSE v \in SuffixWords : WordAt(s, k, v)
             e == k + Len(w)
         IN  Len(w) + (IF e <= Len(s) /\ Ch(s, e) = "." THEN 1 ELSE 0)
    ELSE IF AmpAt(s, k) THEN 1 ELSE 0

\* SUFFIX_PATTERN.sub(" ", s), scanning from position k
RECURSIVE SuffixSub(_, _)
SuffixSub(s, k) ==
    IF k > Len(s) THEN ""
    ELSE LET m == SuffixMatchLen(s, k)
         IN  IF m > 0 THEN " " \o SuffixSub(s, k + m)
             ELSE Ch(s, k) \o SuffixSub(s, k + 1)

\* re.sub(r"[^\w\s]", "", s)
RECURSIVE RemovePunct(_)
RemovePunct(s) ==
    IF s = "" THEN ""
    ELSE (IF IsWord(Ch(s, 1)) \/ IsSpace(Ch(s, 1)) THEN Ch(s, 1) ELSE "")
            \o RemovePunct(Tail(s))

\* " ".join(s.split())
RECURSIVE SqueezeSpaces(_)
SqueezeSpaces(s) ==
    IF s = "" THEN ""
    ELSE IF IsSpace(Ch(s, 1))
         THEN (IF Len(s) > 1 /\ IsSpace(Ch(s, 2)) THEN "" ELSE " ")
                 \o SqueezeSpaces(Tail(s))
         ELSE Ch(s, 1) \o SqueezeSpaces(Tail(s))

CollapseWhitespace(s) == strip(SqueezeSpaces(s))

normalize_name(raw) ==
    IF ~Truthy(raw) THEN None
    ELSE LET s == CollapseWhitespace(RemovePunct(SuffixSub(strip(lower(raw)), 1)))
         IN  IF s = "" THEN None ELSE s

\* faulty variant of email_key: the .lower() is missing
email_key_case_sensitive(raw) == strip(OrEmpty(raw))

\* (raw or "").strip().lower(): the key of the email index and of the city
email_key(raw) == lower(strip(OrEmpty(raw)))

city_key(raw) == lower(strip(OrEmpty(raw)))

----------------------------------------------------------------------------
(* Inputs: the prospect pool and the allied dealers, as loaded from JSON *)

MaxPool == 2
MaxAllied == 2

\* Pool rows before their id is set.  PA and PB are the pool entities of the
\* end-to-end scenario; PX shares its phone with PA, its email with PB and
\* its domain, name, city and state with PF; PL is already linked; PN has no field
\* that normalizes to a key.
PA == [primary_phone |-> "5551234567", status |-> "active"]
PB == [primary_phone |-> None, primary_email |-> "b@x.com"]
PX == [title |-> "ACME, Inc.", phones |-> <<"+1 (555) 123-4567", "555.123.4567">>,
       emails |-> <<" B@X.com ">>, website |-> "https://www.Example.com/path",
       city |-> " Springfield", state |-> "il", is_allied |-> FALSE]
PL == [title |-> "Acme Heating LLC", primary_phone |-> "555.123.4567",
       primary_email |-> "b@x.com", domain |-> "example.com",
       city |-> "Springfield", state |-> "IL", is_allied |-> TRUE]
PF == [title |-> "Acme Heating & Cooling", domain |-> "",
       website |-> "example.com", city |-> "Springfield", state |-> "US-IL"]
PN == [title |-> "Inc.", primary_phone |-> "12345", primary_email |-> "  ",
       website |-> "not a url", city |-> "", state |-> None]

ProspectRows == {PA, PB, PX, PL, PF, PN}

\* Dealer rows before their dealer_no is set.  S1 and S2 are the source
\* records of the end-to-end scenario; S3 has a phone, a website and a name;
\* S4 an email, a website and a name; S5 a name only; S6 nothing usable.
S1 == [contact_phone |-> "(555) 123-4567"]
S2 == [contact_email |-> "B@X.com"]
S3 == [dealer_name |-> "Acme Heating", allied_segment |-> "active_prospect",
       contact_phone |-> "15551234567", dealer_website |-> "www.example.com",
       city |-> "Springfield", state |-> "US-IL"]
S4 == [dealer_name |-> "Acme Co.", allied_segment |-> "current_turnkey",
       contact_email |-> "b@x.com ", dealer_website |-> "Example.com/contact",
       city |-> "springfield ", state |-> "IL"]
S5 == [dealer_name |-> "Acme Co.", city |-> "Springfield", state |-> "IL"]
S6 == [dealer_name |-> "LLC", contact_phone |-> "12345", contact_email |-> "   ",
       dealer_website |-> "not a url", city |-> None]

DealerRows == {S1, S2, S3, S4, S5, S6}

PoolId(k) == "p" \o ToString(k)
DealerNo(k) == "d" \o ToString(k)

----------------------------------------------------------------------------
(* State *)

VARIABLES
    prospects,                  \* main: the list loaded from PROSPECTS_FILE
    allied,                     \* main: the list loaded from ALLIED_FILE
    phone_index,                \* defaultdict(list): phone -> [prospect]
    email_index,                \* defaultdict(list): email -> [prospect]
    domain_index,               \* defaultdict(list): domain -> [prospect]
    name_city_state_index,      \* defaultdict(list): (name, city, state) -> [prospect]
    skipped_allied,
    high_confidence,
    fuzzy_matches,
    ambiguous,
    stats,                      \* defaultdict(int), read with stats.get(k, 0)
    already_matched_prospects,
    pc,                         \* "build", then the tier the loop body is at, then "done"
    j,                          \* build_prospect_indexes: position in prospects
    i                           \* run_matching: position in allied

inputs  == <<prospects, allied>>
indexes == <<phone_index, email_index, domain_index, name_city_state_index>>
outputs == <<high_confidence, fuzzy_matches, ambiguous, stats>>
vars == <<prospects, allied, phone_index, email_index, domain_index,
          name_city_state_index, skipped_allied, high_confidence, fuzzy_matches,
          ambiguous, stats, already_matched_prospects, pc, j, i>>

StatKeys ==
    { "phone_exact", "phone_ambiguous", "email_exact", "email_ambiguous",
      "domain_exact", "domain_ambiguous", "name_city_state",
      "name_city_state_ambiguous", "unmatched" }

EmptyIndex == [k \in {} |-> <<>>]

\* the matcher before main is entered
MatcherAtRest ==
    /\ prospects = <<>>
    /\ allied = <<>>
    /\ phone_index = EmptyIndex
    /\ email_index = EmptyIndex
    /\ domain_index = EmptyIndex
    /\ name_city_state_index = EmptyIndex
    /\ skipped_allied = 0
    /\ high_confidence = <<>>
    /\ fuzzy_matches = <<>>
    /\ ambiguous = <<>>
    /\ stats = [k \in StatKeys |-> 0]
    /\ already_matched_prospects = {}
    /\ pc = "rest"
    /\ j = 1
    /\ i = 1

----------------------------------------------------------------------------
(* State of the other entry points.  Every script runs as a process of its *)
(* own, and a normaliser can be called on its own: while one of them runs, *)
(* the state of the others is at rest and stays so.                        *)

VARIABLES
    arg,                        \* a direct call of a normaliser: its argument
    ret,                        \* its return value
    called                      \* the function called, "" before the call

call == <<arg, ret, called>>

CallAtRest == arg = None /\ ret = None /\ called = ""

VARIABLES
    loader,                     \* the loader that runs
    source,                     \* the rows of its source file, in file order
    edf,                        \* load_excel: the frame after its pandas filters
    row_no,                     \* position of the loop in the rows
    dealers,                    \* the records loaded so far, in insertion order
    dummy_counter,              \* import_excel: _dummy_counter
    imported,                   \* import_dealers: rows inserted
    skipped,                    \* import_dealers: rows not inserted
    lpc,                        \* "read", then "rows", then "done"
    run,                        \* 1 in the first process, 2 in a second one
    previous                    \* what the first process loaded

load == <<loader, source, edf, row_no, dealers, dummy_counter, imported,
          skipped, lpc, run, previous>>

LoadAtRest ==
    /\ loader = ""
    /\ source = <<>>
    /\ edf = <<>>
    /\ row_no = 1
    /\ dealers = <<>>
    /\ dummy_counter = 0
    /\ imported = 0
    /\ skipped = 0
    /\ lpc = "rest"
    /\ run = 1
    /\ previous = <<>>

VARIABLES
    entity,                     \* compute_scores: the dealer record d
    spc                         \* "loaded", "enriched", then "scored"

scoring == <<entity, spc>>

ScoringAtRest == entity = <<>> /\ spc = "rest"

VARIABLES
    script,                     \* the script whose main runs
    mpc,                        \* the step of main that comes next
    present,                    \* the source files that exist
    log,                        \* the ERROR and WARNING lines printed
    records,                    \* main: dealers, api_dealers, merged
    prospect_data,              \* build-pe-allied-dealers.py: prospect_data
    wc_dealer_nos,              \* build-pe-allied-dealers.py: wc_dealer_nos
    output                      \* the JSON written to OUTPUT_PATH

pipeline == <<script, mpc, present, log, records, prospect_data,
              wc_dealer_nos, output>>

PipelineAtRest ==
    /\ script = ""
    /\ mpc = "rest"
    /\ present = {}
    /\ log = <<>>
    /\ records = <<>>
    /\ prospect_data = <<>>
    /\ wc_dealer_nos = {}
    /\ output = <<>>

VARIABLES
    enriching,                  \* dealers, while the loaders fill it row by row
    epc,                        \* the loader whose loop runs
    grouped                     \* the groups its groupby loop has passed

enrich == <<enriching, epc, grouped>>

EnrichAtRest ==
    /\ enriching = <<>>
    /\ epc = "rest"
    /\ grouped = {}

VARIABLES
    sheet,                      \* the spreadsheet: one column per dealer
    db,                         \* the dealers table, by dealer_no
    dry_run,                    \* the argument of process_done_status
    done_dealers,               \* the columns found in Done status
    didx,                       \* the dealer the loop is at
    updates,                    \* the queued cell updates
    result,                     \* processed, errors, skipped
    sends,                      \* the calls of the email functions, in order
    ppc,                        \* where process_done_status is
    runs                        \* the runs started so far

pds == <<sheet, db, dry_run, done_dealers, didx, updates, result, sends, ppc, runs>>

PdsAtRest ==
    /\ sheet = <<>>
    /\ db = <<>>
    /\ dry_run = FALSE
    /\ done_dealers = <<>>
    /\ didx = 1
    /\ updates = <<>>
    /\ result = <<>>
    /\ sends = <<>>
    /\ ppc = "rest"
    /\ runs = 0

VARIABLES
    batch,                      \* the dealers of batch_render's main
    api,                        \* what the render service holds per render
    renders,                    \* render_id -> dealer info, the pending set
    completed,                  \* the list completed
    failed,                     \* the list failed
    tix,                        \* the dealer the trigger loop is at
    polls,                      \* the polling rounds so far
    rpc                         \* where main is

render == <<batch, api, renders, completed, failed, tix, polls, rpc>>

RenderAtRest ==
    /\ batch = <<>>
    /\ api = <<>>
    /\ renders = <<>>
    /\ completed = <<>>
    /\ failed = <<>>
    /\ tix = 1
    /\ polls = 0
    /\ rpc = "rest"

\* the entry points that come after the build scripts
extra == <<enrich, pds, render>>
ExtraAtRest == EnrichAtRest /\ PdsAtRest /\ RenderAtRest

\* the state of all the entry points
everything == <<vars, call, load, scoring, pipeline, extra>>

\* what a run of the matcher leaves alone
OutsideMatcher == <<call, load, scoring, pipeline, extra>>
OutsideMatcherAtRest ==
    CallAtRest /\ LoadAtRest /\ ScoringAtRest /\ PipelineAtRest /\ ExtraAtRest

Init ==
    /\ \E n \in 0..MaxPool : \E rows \in [1..n -> ProspectRows] :
          prospects = [k \in 1..n |-> rows[k] @@ [id |-> PoolId(k)]]
    /\ \E n \in 0..MaxAllied : \E rows \in [1..n -> DealerRows] :
          allied = [k \in 1..n |-> rows[k] @@ [dealer_no |-> DealerNo(k)]]
    /\ phone_index = EmptyIndex
    /\ email_index = EmptyIndex
    /\ domain_index = EmptyIndex
    /\ name_city_state_index = EmptyIndex
    /\ skipped_allied = 0
    /\ high_confidence = <<>>
    /\ fuzzy_matches = <<>>
    /\ ambiguous = <<>>
    /\ stats = [k \in StatKeys |-> 0]
    /\ already_matched_prospects = {}
    /\ pc = "build"
    /\ j = 1
    /\ i = 1
    /\ OutsideMatcherAtRest

----------------------------------------------------------------------------
(* build_prospect_indexes *)

\* faulty variant of IsAllied: the skip of linked prospects is missing
IsAlliedIgnored(p) == FALSE

\* p.get("is_allied")
IsAllied(p) == "is_allied" \in DOMAIN p /\ p.is_allied

\* p.get("title", "")
TitleOf(p) == IF "title" \in DOMAIN p THEN p.title ELSE ""

\* p.get(k) or [], as the set of its elements
ListOf(p, k) ==
    IF k \in DOMAIN p /\ p[k] /= None THEN {p[k][n] : n \in 1..Len(p[k])} ELSE {}

all_phones(p) ==
    {normalize_phone(ph) : ph \in {Get(p, "primary_phone")} \cup ListOf(p, "phones")}
        \ {None}

\* the elements of p["emails"] are strs, for which str(em).strip().lower()
\* is email_key(em)
all_emails(p) ==
    {email_key(em) : em \in {Get(p, "primary_email")} \cup ListOf(p, "emails")}
        \ {""}

\* extract_domain(p.get("domain") or p.get("website")), as a set of keys
domain_keys(p) ==
    LET dom == extract_domain(IF Truthy(Get(p, "domain")) THEN Get(p, "domain")
                                                         ELSE Get(p, "website"))
    IN  IF Truthy(dom) THEN {dom} ELSE {}

\* the (name, city, state) key of a prospect, as a set of keys
ncs_keys(p) ==
    LET nn == normalize_name(TitleOf(p))
        nc == city_key(Get(p, "city"))
        ns == normalize_state(Get(p, "state"))
    IN  IF Truthy(nn) /\ Truthy(nc) /\ Truthy(ns) THEN {<<nn, nc, ns>>} ELSE {}

\* for k in keys: index[k].append(p)
IndexAppend(index, keys, p) ==
    [k \in DOMAIN index \cup keys |->
        IF k \in keys
        THEN (IF k \in DOMAIN index THEN Append(index[k], p) ELSE <<p>>)
        ELSE index[k]]

\* p.get(k) or [], as the list it is
SeqOf(p, k) == IF k \in DOMAIN p /\ p[k] /= None THEN p[k] ELSE <<>>

\* for k in keys: index[k].append(p), keys being a list
RECURSIVE AppendEach(_, _, _)
AppendEach(index, keys, p) ==
    IF keys = <<>> THEN index
    ELSE AppendEach(IndexAppend(index, {Head(keys)}, p), Tail(keys), p)

\* faulty variant of BuildStep: all_phones and all_emails are lists, so a
\* value repeated in the contact fields of a prospect is appended again
BuildStepPerValue ==
    /\ pc = "build"
    /\ j <= Len(prospects)
    /\ LET p == prospects[j]
           phones == SelectSeq(
                        <<normalize_phone(Get(p, "primary_phone"))>> \o
                           [o \in 1..Len(SeqOf(p, "phones")) |->
                               normalize_phone(SeqOf(p, "phones")[o])],
                        LAMBDA v : v /= None)
           emails == SelectSeq(
                        <<email_key(Get(p, "primary_email"))>> \o
                           [o \in 1..Len(SeqOf(p, "emails")) |->
                               email_key(SeqOf(p, "emails")[o])],
                        LAMBDA v : v /= "")
       IN  IF IsAllied(p)
           THEN /\ skipped_allied' = skipped_allied + 1
                /\ UNCHANGED indexes
           ELSE /\ phone_index' = AppendEach(phone_index, phones, p)
                /\ email_index' = AppendEach(email_index, emails, p)
                /\ domain_index' = IndexAppend(domain_index, domain_keys(p), p)
                /\ name_city_state_index' =
                      IndexAppend(name_city_state_index, ncs_keys(p), p)
                /\ UNCHANGED skipped_allied
    /\ j' = j + 1
    /\ UNCHANGED <<inputs, outputs, already_matched_prospects, pc, i>>

\* one iteration of the loop over prospects
BuildStep ==
    /\ pc = "build"
    /\ j <= Len(prospects)
    /\ LET p == prospects[j]
       IN  IF IsAllied(p)
           THEN /\ skipped_allied' = skipped_allied + 1
                /\ UNCHANGED indexes
           ELSE /\ phone_index' = IndexAppend(phone_index, all_phones(p), p)
                /\ email_index' = IndexAppend(email_index, all_emails(p), p)
                /\ domain_index' = IndexAppend(domain_index, domain_keys(p), p)
                /\ name_city_state_index' =
                      IndexAppend(name_city_state_index, ncs_keys(p), p)
                /\ UNCHANGED skipped_allied
    /\ j' = j + 1
    /\ UNCHANGED <<inputs, outputs, already_matched_prospects, pc, i>>

\* the return of build_prospect_indexes and the call of run_matching in main
BuildReturn ==
    /\ pc = "build"
    /\ j > Len(prospects)
    /\ pc' = IF Len(allied) = 0 THEN "done" ELSE "phone"
    /\ UNCHANGED <<inputs, indexes, skipped_allied, outputs,
                   already_matched_prospects, j, i>>

----------------------------------------------------------------------------
(* run_matching *)

MaxTitlesShown == 5

dealer == allied[i]
dno == dealer.dealer_no
dname == OrEmpty(Get(dealer, "dealer_name"))
segment == OrEmpty(Get(dealer, "allied_segment"))

\* stats[k] += 1
Bump(st, k) == [st EXCEPT ![k] = @ + 1]

\* faulty variant of Candidates: consumed prospects are not filtered out
CandidatesUnfiltered(lst) == lst

\* [c for c in lst if c["id"] not in already_matched_prospects]
Candidates(lst) == SelectSeq(lst, LAMBDA c : c.id \notin already_matched_prospects)

\* "; ".join(c.get("title", "") for c in cands)
RECURSIVE JoinTitles(_)
JoinTitles(cands) ==
    IF Len(cands) = 0 THEN ""
    ELSE IF Len(cands) = 1 THEN TitleOf(cands[1])
    ELSE TitleOf(cands[1]) \o "; " \o JoinTitles(Tail(cands))

\* candidates[:5]
Shown(cands) ==
    SubSeq(cands, 1, IF Len(cands) < MaxTitlesShown THEN Len(cands) ELSE MaxTitlesShown)

\* `continue`, or the end of the loop body: the next dealer, or the return
NextDealer ==
    /\ i' = i + 1
    /\ pc' = IF i + 1 > Len(allied) THEN "done" ELSE "phone"

\* a tier found no candidate: the next tier of the same dealer
FallThrough(next) ==
    /\ pc' = next
    /\ UNCHANGED <<inputs, indexes, skipped_allied, outputs,
                   already_matched_prospects, j, i>>

\* faulty variant of ExactMatched: consumption is marked on the prospect record
\* (p["matched"] = True) instead of in the set
ExactMatchedMarking(reason, value, p) ==
    /\ high_confidence' = Append(high_confidence,
          [dealer_no |-> dno, dealer_name |-> dname, allied_segment |-> segment,
           prospect_id |-> p.id, prospect_title |-> TitleOf(p),
           match_reason |-> reason, matched_value |-> value])
    /\ prospects' = [k \in 1..Len(prospects) |->
          IF prospects[k].id = p.id THEN [matched |-> TRUE] @@ prospects[k]
                                    ELSE prospects[k]]
    /\ already_matched_prospects' = already_matched_prospects \cup {p.id}
    /\ stats' = Bump(stats, reason)
    /\ NextDealer
    /\ UNCHANGED <<allied, indexes, skipped_allied, fuzzy_matches, ambiguous, j>>

\* len(candidates) == 1 at the phone, email or domain tier
ExactMatched(reason, value, p) ==
    /\ high_confidence' = Append(high_confidence,
          [dealer_no |-> dno, dealer_name |-> dname, allied_segment |-> segment,
           prospect_id |-> p.id, prospect_title |-> TitleOf(p),
           match_reason |-> reason, matched_value |-> value])
    /\ already_matched_prospects' = already_matched_prospects \cup {p.id}
    /\ stats' = Bump(stats, reason)
    /\ NextDealer
    /\ UNCHANGED <<inputs, indexes, skipped_allied, fuzzy_matches, ambiguous, j>>

\* faulty variant of ExactAmbiguous: the first candidate is taken as the match
ExactAmbiguousGuessFirst(reason, stat, value, candidates) ==
    ExactMatched(reason, value, candidates[1])

\* len(candidates) > 1 at the phone, email or domain tier
ExactAmbiguous(reason, stat, value, candidates) ==
    /\ ambiguous' = Append(ambiguous,
          [dealer_no |-> dno, dealer_name |-> dname, allied_segment |-> segment,
           match_reason |-> reason, matched_value |-> value,
           candidate_count |-> Len(candidates),
           candidate_titles |-> JoinTitles(Shown(candidates))])
    /\ stats' = Bump(stats, stat)
    /\ NextDealer
    /\ UNCHANGED <<inputs, indexes, skipped_allied, high_confidence, fuzzy_matches,
                   already_matched_prospects, j>>

\* faulty variant of ExactTier: an ambiguous tier records nothing and falls through
ExactTierAmbiguityFallsThrough(reason, stat, key, index, next) ==
    IF Truthy(key) /\ key \in DOMAIN index
    THEN LET candidates == Candidates(index[key])
         IN  IF Len(candidates) = 1
             THEN ExactMatched(reason, key, candidates[1])
             ELSE FallThrough(next)
    ELSE FallThrough(next)

\* the block of one high-confidence tier and the `if matched: continue` after it
ExactTier(reason, stat, key, index, next) ==
    IF Truthy(key) /\ key \in DOMAIN index
    THEN LET candidates == Candidates(index[key])
         IN  IF Len(candidates) = 1
             THEN ExactMatched(reason, key, candidates[1])
             ELSE IF Len(candidates) > 1
                  THEN ExactAmbiguous(reason, stat, key, candidates)
                  ELSE FallThrough(next)
    ELSE FallThrough(next)

TierPhone ==
    /\ pc = "phone"
    /\ ExactTier("phone_exact", "phone_ambiguous",
                 normalize_phone(Get(dealer, "contact_phone")), phone_index, "email")

TierEmail ==
    /\ pc = "email"
    /\ ExactTier("email_exact", "email_ambiguous",
                 email_key(Get(dealer, "contact_email")), email_index, "domain")

TierDomain ==
    /\ pc = "domain"
    /\ ExactTier("domain_exact", "domain_ambiguous",
                 extract_domain(Get(dealer, "dealer_website")), domain_index, "ncs")

\* the row of a fuzzy match
FuzzyRow(dn, dc, ds, p) ==
    [dealer_no |-> dno, dealer_name |-> dname, allied_segment |-> segment,
     prospect_id |-> p.id, prospect_title |-> TitleOf(p),
     match_reason |-> "name_city_state",
     matched_value |-> dn \o " | " \o dc \o " | " \o ds,
     name_allied_norm |-> dn,
     name_prospect_norm |-> normalize_name(Get(p, "title")),
     city |-> dc, state |-> ds]

\* faulty variant of FuzzyMatched: the fuzzy match consumes the prospect
FuzzyMatchedConsuming(dn, dc, ds, p) ==
    /\ fuzzy_matches' = Append(fuzzy_matches, FuzzyRow(dn, dc, ds, p))
    /\ already_matched_prospects' = already_matched_prospects \cup {p.id}
    /\ stats' = Bump(stats, "name_city_state")
    /\ NextDealer
    /\ UNCHANGED <<inputs, indexes, skipped_allied, high_confidence, ambiguous, j>>

\* faulty variant of FuzzyMatched: `matched = True` is missing
FuzzyMatchedStillUnmatched(dn, dc, ds, p) ==
    /\ fuzzy_matches' = Append(fuzzy_matches, FuzzyRow(dn, dc, ds, p))
    /\ stats' = Bump(Bump(stats, "name_city_state"), "unmatched")
    /\ NextDealer
    /\ UNCHANGED <<inputs, indexes, skipped_allied, high_confidence, ambiguous,
                   already_matched_prospects, j>>

\* len(candidates) == 1 at the name + city + state tier
FuzzyMatched(dn, dc, ds, p) ==
    /\ fuzzy_matches' = Append(fuzzy_matches, FuzzyRow(dn, dc, ds, p))
    /\ stats' = Bump(stats, "name_city_state")
    /\ NextDealer
    /\ UNCHANGED <<inputs, indexes, skipped_allied, high_confidence, ambiguous,
                   already_matched_prospects, j>>

\* len(candidates) > 1 at the name + city + state tier: matched stays False
FuzzyAmbiguous ==
    /\ stats' = Bump(Bump(stats, "name_city_state_ambiguous"), "unmatched")
    /\ NextDealer
    /\ UNCHANGED <<inputs, indexes, skipped_allied, high_confidence, fuzzy_matches,
                   ambiguous, already_matched_prospects, j>>

\* no tier matched
Unmatched ==
    /\ stats' = Bump(stats, "unmatched")
    /\ NextDealer
    /\ UNCHANGED <<inputs, indexes, skipped_allied, high_confidence, fuzzy_matches,
                   ambiguous, already_matched_prospects, j>>

\* faulty variant of TierNameCityState: `if not matched` is nested in the block of
\* the usable key, so a dealer without one is not counted
TierNameCityStateNested ==
    /\ pc = "ncs"
    /\ LET dn == normalize_name(dname)
           dc == city_key(Get(dealer, "city"))
           ds == normalize_state(Get(dealer, "state"))
       IN  IF Truthy(dn) /\ Truthy(dc) /\ Truthy(ds)
              /\ <<dn, dc, ds>> \in DOMAIN name_city_state_index
           THEN LET candidates == Candidates(name_city_state_index[<<dn, dc, ds>>])
                IN  IF Len(candidates) = 1
                    THEN FuzzyMatched(dn, dc, ds, candidates[1])
                    ELSE IF Len(candidates) > 1
                         THEN FuzzyAmbiguous
                         ELSE Unmatched
           ELSE /\ NextDealer
                /\ UNCHANGED <<inputs, indexes, skipped_allied, outputs,
                               already_matched_prospects, j>>

TierNameCityState ==
    /\ pc = "ncs"
    /\ LET dn == normalize_name(dname)
           dc == city_key(Get(dealer, "city"))
           ds == normalize_state(Get(dealer, "state"))
       IN  IF Truthy(dn) /\ Truthy(dc) /\ Truthy(ds)
              /\ <<dn, dc, ds>> \in DOMAIN name_city_state_index
           THEN LET candidates == Candidates(name_city_state_index[<<dn, dc, ds>>])
                IN  IF Len(candidates) = 1
                    THEN FuzzyMatched(dn, dc, ds, candidates[1])
                    ELSE IF Len(candidates) > 1
                         THEN FuzzyAmbiguous
                         ELSE Unmatched
           ELSE Unmatched

Next ==
    \/ BuildStep /\ UNCHANGED OutsideMatcher
    \/ BuildReturn /\ UNCHANGED OutsideMatcher
    \/ TierPhone /\ UNCHANGED OutsideMatcher
    \/ TierEmail /\ UNCHANGED OutsideMatcher
    \/ TierDomain /\ UNCHANGED OutsideMatcher
    \/ TierNameCityState /\ UNCHANGED OutsideMatcher

Spec == Init /\ [][Next]_everything

----------------------------------------------------------------------------
(* The candidates of a dealer, stated on the pool itself, not on the indexes *)

TierPcs == {"phone", "email", "domain", "ncs"}
ExactPcs == {"phone", "email", "domain"}
TierNo == [phone |-> 1, email |-> 2, domain |-> 3, ncs |-> 4]
TierAfter == [phone |-> "email", email |-> "domain", domain |-> "ncs"]
ReasonOf == [phone |-> "phone_exact", email |-> "email_exact",
             domain |-> "domain_exact", ncs |-> "name_city_state"]

Last(seq) == seq[Len(seq)]

\* the keys a pool entity is reachable under at tier t
PoolKeys(t, p) ==
    CASE t = "phone"  -> all_phones(p)
      [] t = "email"  -> all_emails(p)
      [] t = "domain" -> domain_keys(p)
      [] t = "ncs"    -> ncs_keys(p)

\* the key of dealer d at tier t, as a set: empty when it has none
SourceKeys(t, d) ==
    CASE t = "phone"  -> {normalize_phone(Get(d, "contact_phone"))} \ {None}
      [] t = "email"  -> {email_key(Get(d, "contact_email"))} \ {""}
      [] t = "domain" -> {extract_domain(Get(d, "dealer_website"))} \ {None}
      [] t = "ncs"    ->
            LET dn == normalize_name(OrEmpty(Get(d, "dealer_name")))
                dc == city_key(Get(d, "city"))
                ds == normalize_state(Get(d, "state"))
            IN  IF Truthy(dn) /\ Truthy(dc) /\ Truthy(ds) THEN {<<dn, dc, ds>>} ELSE {}

\* the literal value a row of tier t reports for dealer d
MatchedValue(t, d) ==
    LET k == CHOOSE x \in SourceKeys(t, d) : TRUE
    IN  IF t = "ncs" THEN k[1] \o " | " \o k[2] \o " | " \o k[3] ELSE k

\* the pool entity is flagged as previously linked
Linked(p) == "is_allied" \in DOMAIN p /\ p.is_allied = TRUE

\* positions of the pool entities, not previously linked, that share d's key
Matches(t, d) ==
    {k \in 1..Len(prospects) :
        /\ ~Linked(prospects[k])
        /\ PoolKeys(t, prospects[k]) \cap SourceKeys(t, d) /= {}}

\* those of them no high-confidence match has consumed yet
Unconsumed(t, d) ==
    {k \in Matches(t, d) : prospects[k].id \notin already_matched_prospects}

\* the same, as the list of pool records in pool order
UnconsumedList(t, d) ==
    SelectSeq(prospects, LAMBDA p :
        \E k \in Unconsumed(t, d) : prospects[k].id = p.id)

Matching == pc \in TierPcs

\* the rows a step adds to the three output lists
NoNewRows ==
    /\ high_confidence' = high_confidence
    /\ fuzzy_matches' = fuzzy_matches
    /\ ambiguous' = ambiguous
NewReasons ==
    (IF high_confidence' /= high_confidence
         THEN {Last(high_confidence').match_reason} ELSE {})
    \cup (IF fuzzy_matches' /= fuzzy_matches
         THEN {Last(fuzzy_matches').match_reason} ELSE {})
    \cup (IF ambiguous' /= ambiguous
         THEN {Last(ambiguous').match_reason} ELSE {})

RowDealers(rows) == {rows[k].dealer_no : k \in 1..Len(rows)}
RowProspects(rows) == {rows[k].prospect_id : k \in 1..Len(rows)}
DealerOf(no) == allied[CHOOSE k \in 1..Len(allied) : allied[k].dealer_no = no]

----------------------------------------------------------------------------
(* C1 *)

\* a tier is reached only when every higher tier has no unconsumed candidate
LowerTierOnlyAfterEmpty ==
    Matching =>
        \A t \in TierPcs : TierNo[t] < TierNo[pc] => Unconsumed(t, dealer) = {}

\* a tier without unconsumed candidates records nothing and hands over to the
\* next tier; a tier with some ends the cascade for this dealer, and every
\* row recorded carries that tier's reason
TierStep ==
    Matching =>
        IF Unconsumed(pc, dealer) = {}
        THEN /\ NoNewRows
             /\ pc /= "ncs" => (i' = i /\ pc' = TierAfter[pc])
        ELSE /\ i' = i + 1
             /\ NewReasons \subseteq {ReasonOf[pc]}
             /\ pc /= "ncs" => NewReasons = {ReasonOf[pc]}

\* C1: the tiers are tried in the order phone, email, domain, name+city+state;
\* the recorded result comes from the first tier with an unconsumed candidate,
\* and a lower tier is consulted only when every higher tier had none.
CascadeOrder == [] LowerTierOnlyAfterEmpty /\ [][TierStep]_vars

\* a dealer matched by phone_exact whose phone and whose domain each single
\* out one pool entity
CascadeOrderWitness ==
    /\ pc = "done"
    /\ \E k \in 1..Len(high_confidence) :
          LET r == high_confidence[k]
          IN  /\ r.match_reason = "phone_exact"
              /\ Cardinality(Matches("phone", DealerOf(r.dealer_no))) = 1
              /\ Cardinality(Matches("domain", DealerOf(r.dealer_no))) = 1

----------------------------------------------------------------------------
(* C2 *)

\* C2: when the phone, email or domain tier finds two or more unconsumed pool
\* entities for the dealer, the step adds exactly one ambiguous row for that
\* tier (its count and titles those of all the candidates), adds no match,
\* consumes nothing, and goes on to the next dealer, not to a lower tier.
AmbiguousNeverGuessed ==
    [][ (pc \in ExactPcs /\ Cardinality(Unconsumed(pc, dealer)) >= 2) =>
          /\ Len(ambiguous') = Len(ambiguous) + 1
          /\ SubSeq(ambiguous', 1, Len(ambiguous)) = ambiguous
          /\ Last(ambiguous').dealer_no = dno
          /\ Last(ambiguous').match_reason = ReasonOf[pc]
          /\ Last(ambiguous').matched_value = MatchedValue(pc, dealer)
          /\ Last(ambiguous').candidate_count = Cardinality(Unconsumed(pc, dealer))
          /\ Last(ambiguous').candidate_titles =
                JoinTitles(Shown(UnconsumedList(pc, dealer)))
          /\ high_confidence' = high_confidence
          /\ fuzzy_matches' = fuzzy_matches
          /\ already_matched_prospects' = already_matched_prospects
          /\ stats'.unmatched = stats.unmatched
          /\ i' = i + 1
          /\ pc' \in {"phone", "done"} ]_vars

\* two pool entities share a phone, and a dealer with that phone has ended
\* with one ambiguous row naming both and with no other outcome
AmbiguousNeverGuessedWitness ==
    /\ pc = "done"
    /\ \E k \in 1..Len(ambiguous) :
          /\ ambiguous[k].match_reason = "phone_exact"
          /\ ambiguous[k].candidate_count = 2
          /\ Cardinality(Matches("phone", DealerOf(ambiguous[k].dealer_no))) = 2
          /\ ambiguous[k].dealer_no \notin
                RowDealers(high_confidence) \cup RowDealers(fuzzy_matches)

----------------------------------------------------------------------------
(* C3 *)

\* C3: no pool entity is the prospect of two high-confidence matches.
ConsumptionExclusive ==
    \A a, b \in 1..Len(high_confidence) :
        a /= b => high_confidence[a].prospect_id /= high_confidence[b].prospect_id

\* two dealers whose phone singles out the same pool entity: the first has
\* the high-confidence match, the second has none
ConsumptionExclusiveWitness ==
    /\ pc = "done"
    /\ \E a, b \in 1..Len(allied) : \E k \in 1..Len(prospects) :
          /\ a < b
          /\ Matches("phone", allied[a]) = {k}
          /\ Matches("phone", allied[b]) = {k}
          /\ \E r \in 1..Len(high_confidence) :
                /\ high_confidence[r].dealer_no = allied[a].dealer_no
                /\ high_confidence[r].prospect_id = prospects[k].id
                /\ high_confidence[r].match_reason = "phone_exact"
          /\ allied[b].dealer_no \notin RowDealers(high_confidence)

----------------------------------------------------------------------------
(* C4 *)

\* C4: at every tier, the name+city+state tier included, two or more
\* unconsumed candidates give a row of the ambiguous output that names the
\* method and the matched value, and the dealer is not counted unmatched.
AmbiguousRowAtEveryTier ==
    [][ (Matching /\ Cardinality(Unconsumed(pc, dealer)) >= 2) =>
          /\ Len(ambiguous') = Len(ambiguous) + 1
          /\ Last(ambiguous').dealer_no = dno
          /\ Last(ambiguous').match_reason = ReasonOf[pc]
          /\ Last(ambiguous').matched_value = MatchedValue(pc, dealer)
          /\ stats'.unmatched = stats.unmatched ]_vars

----------------------------------------------------------------------------
(* C5 *)

\* the consumed set is the set of prospects of the high-confidence matches
ConsumedAreHighConfidence ==
    already_matched_prospects = RowProspects(high_confidence)

\* C5: a step of the name+city+state tier, a fuzzy match included, leaves the
\* consumed set as it was, so the consumed set is at all times exactly the
\* prospects of the high-confidence matches and a fuzzily matched pool entity
\* stays a candidate for every later dealer.
FuzzyDoesNotConsume ==
    /\ [] ConsumedAreHighConfidence
    /\ [][ pc = "ncs" =>
             already_matched_prospects' = already_matched_prospects ]_vars

\* a pool entity matched fuzzily by one dealer and matched again by a later
\* dealer
FuzzyDoesNotConsumeWitness ==
    /\ pc = "done"
    /\ \E a \in 1..Len(fuzzy_matches) :
          \/ \E b \in 1..Len(fuzzy_matches) :
                /\ a < b
                /\ fuzzy_matches[a].prospect_id = fuzzy_matches[b].prospect_id
          \/ \E b \in 1..Len(high_confidence) :
                /\ fuzzy_matches[a].prospect_id = high_confidence[b].prospect_id
                /\ fuzzy_matches[a].dealer_no = DealerNo(1)
                /\ high_confidence[b].dealer_no = DealerNo(2)

----------------------------------------------------------------------------
(* C6 *)

\* C6: the dealers processed so far (i - 1 of them, all of them at the
\* return) are partitioned by outcome: each has at most one row over the
\* three output lists, and the rows and the unmatched count add up to them.
OneOutcomePerDealer ==
    /\ Len(high_confidence) + Len(fuzzy_matches) + Len(ambiguous)
          + stats.unmatched = i - 1
    /\ pc = "done" => i - 1 = Len(allied)
    /\ Cardinality(RowDealers(high_confidence)) = Len(high_confidence)
    /\ Cardinality(RowDealers(fuzzy_matches)) = Len(fuzzy_matches)
    /\ Cardinality(RowDealers(ambiguous)) = Len(ambiguous)
    /\ RowDealers(high_confidence) \cap RowDealers(fuzzy_matches) = {}
    /\ RowDealers(high_confidence) \cap RowDealers(ambiguous) = {}
    /\ RowDealers(fuzzy_matches) \cap RowDealers(ambiguous) = {}
    /\ RowDealers(high_confidence) \cup RowDealers(fuzzy_matches)
          \cup RowDealers(ambiguous) \subseteq {DealerNo(k) : k \in 1..(i - 1)}

\* a finished run with a dealer of each of two different outcomes
OneOutcomePerDealerWitness ==
    /\ pc = "done"
    /\ Len(allied) = MaxAllied
    /\ stats.unmatched = 1
    /\ Len(high_confidence) + Len(fuzzy_matches) + Len(ambiguous) = MaxAllied - 1

----------------------------------------------------------------------------
(* C7 *)

AlliedIds == {prospects[k].id : k \in {n \in 1..Len(prospects) : Linked(prospects[n])}}

EntriesOf(index) == UNION {{index[k][n] : n \in 1..Len(index[k])} : k \in DOMAIN index}

\* C7: a previously linked pool entity is in no list of any of the four
\* indexes, is the prospect of no high-confidence or fuzzy match, and is not
\* counted among the candidates of an ambiguous row.
AlliedNeverIndexed ==
    /\ \A p \in EntriesOf(phone_index) \cup EntriesOf(email_index)
                  \cup EntriesOf(domain_index) \cup EntriesOf(name_city_state_index) :
          ~Linked(p)
    /\ RowProspects(high_confidence) \cap AlliedIds = {}
    /\ RowProspects(fuzzy_matches) \cap AlliedIds = {}
    /\ \A k \in 1..Len(ambiguous) :
          \E t \in ExactPcs :
             /\ ambiguous[k].match_reason = ReasonOf[t]
             /\ ambiguous[k].candidate_count
                   <= Cardinality(Matches(t, DealerOf(ambiguous[k].dealer_no)))

\* a finished run over a pool with a linked entity and a dealer that shares
\* its phone, its email, its domain and its name, city and state
AlliedNeverIndexedWitness ==
    /\ pc = "done"
    /\ \E k \in 1..Len(prospects) : \E n \in 1..Len(allied) :
          /\ Linked(prospects[k])
          /\ all_phones(prospects[k]) \cap SourceKeys("phone", allied[n]) /= {}
          /\ domain_keys(prospects[k]) \cap SourceKeys("domain", allied[n]) /= {}
          /\ ncs_keys(prospects[k]) \cap SourceKeys("ncs", allied[n]) /= {}
    /\ skipped_allied > 0

----------------------------------------------------------------------------
(* C8 *)

ScenarioPool == <<PA @@ [id |-> PoolId(1)], PB @@ [id |-> PoolId(2)]>>
ScenarioSource == <<S1 @@ [dealer_no |-> DealerNo(1)], S2 @@ [dealer_no |-> DealerNo(2)]>>

\* C8: pool A (phone 5551234567), B (no phone, email b@x.com), sources S1
\* (phone "(555) 123-4567"), S2 (email "B@X.com"): the run ends with exactly
\* two high-confidence matches, S1 to A by phone_exact and S2 to B by
\* email_exact, and nothing else.
EndToEndScenario ==
    (prospects = ScenarioPool /\ allied = ScenarioSource /\ pc = "done") =>
        /\ Len(high_confidence) = 2
        /\ high_confidence[1].dealer_no = DealerNo(1)
        /\ high_confidence[1].prospect_id = PoolId(1)
        /\ high_confidence[1].match_reason = "phone_exact"
        /\ high_confidence[1].matched_value = "5551234567"
        /\ high_confidence[2].dealer_no = DealerNo(2)
        /\ high_confidence[2].prospect_id = PoolId(2)
        /\ high_confidence[2].match_reason = "email_exact"
        /\ high_confidence[2].matched_value = "b@x.com"
        /\ fuzzy_matches = <<>>
        /\ ambiguous = <<>>
        /\ stats.unmatched = 0

EndToEndScenarioWitness ==
    /\ prospects = ScenarioPool
    /\ allied = ScenarioSource
    /\ pc = "done"
    /\ stats.phone_exact = 1
    /\ stats.email_exact = 1

----------------------------------------------------------------------------
(* C9 *)

\* C9: no step changes a pool record or a source record, and no step of
\* run_matching changes any of the four indexes.
InputsNeverMutated ==
    [][ /\ prospects' = prospects
        /\ allied' = allied
        /\ pc /= "build" => indexes' = indexes ]_vars

\* a finished run that built indexes and recorded a match of each kind of row
InputsNeverMutatedWitness ==
    /\ pc = "done"
    /\ Len(high_confidence) > 0
    /\ Len(fuzzy_matches) + Len(ambiguous) > 0
    /\ DOMAIN phone_index /= {}

----------------------------------------------------------------------------
(* C10 *)

NoUsableKey(d) == \A t \in TierPcs : SourceKeys(t, d) = {}

\* C10: a dealer without a usable key passes every tier without a row and
\* without consuming anything, and the last tier counts it unmatched and
\* goes on to the next dealer.
KeylessDealerUnmatched ==
    [][ (Matching /\ NoUsableKey(dealer)) =>
          /\ NoNewRows
          /\ already_matched_prospects' = already_matched_prospects
          /\ IF pc = "ncs"
             THEN /\ stats' = [stats EXCEPT !.unmatched = @ + 1]
                  /\ i' = i + 1
                  /\ pc' \in {"phone", "done"}
             ELSE /\ stats' = stats
                  /\ i' = i
                  /\ pc' = TierAfter[pc] ]_vars

\* a finished run in which a dealer without a usable key met a pool entity
\* without one
KeylessDealerUnmatchedWitness ==
    /\ pc = "done"
    /\ Len(allied) = 1
    /\ NoUsableKey(allied[1])
    /\ \E k \in 1..Len(prospects) :
          \A t \in TierPcs : PoolKeys(t, prospects[k]) = {}
    /\ stats.unmatched = 1
    /\ Len(high_confidence) + Len(fuzzy_matches) + Len(ambiguous) = 0

----------------------------------------------------------------------------
(* The normalisers called on their own (match-allied-to-prospects.py)       *)

\* raw phone values: an optional country code, an area code, an exchange, a
\* separator, a line number and an optional extension
PhonePrefixes == {"", "1", "+1 ", "1-", "2", "11"}
PhoneAreas == {"555", "(555) ", "555.", "555-", "55"}
PhoneSeps == {"", "-", "."}
PhoneLines == {"4567", "456", "45678"}
PhoneExts == {"", " x9"}

PhoneInputs ==
    { a \o b \o "123" \o c \o d \o e :
        a \in PhonePrefixes, b \in PhoneAreas, c \in PhoneSeps,
        d \in PhoneLines, e \in PhoneExts } \cup {"12345", "", None}

\* raw website values: an optional scheme, optional "www." labels, a host and
\* what follows the host
UrlSchemes == {"", "https://", "http://", "HTTPS://", "ftp://", "//"}
UrlPrefixes == {"", "www.", "WWW.", "www.www."}
UrlHosts ==
    {"Example.com", "example", "a.b", "ab.c", "httpbin.org", "not a url",
     "user@example.com", ""}
UrlTails == {"", "/path", ":8080/x", "?q=1", " "}

UrlInputs ==
    { a \o b \o c \o d :
        a \in UrlSchemes, b \in UrlPrefixes, c \in UrlHosts, d \in UrlTails }

\* what a direct call leaves alone
OutsideCall == <<vars, load, scoring, pipeline, extra>>
OutsideCallAtRest ==
    MatcherAtRest /\ LoadAtRest /\ ScoringAtRest /\ PipelineAtRest /\ ExtraAtRest

CallInit ==
    /\ arg \in PhoneInputs \cup UrlInputs
    /\ ret = None
    /\ called = ""
    /\ OutsideCallAtRest

CallNormalizePhone ==
    /\ called = ""
    /\ ret' = normalize_phone(arg)
    /\ called' = "normalize_phone"
    /\ UNCHANGED <<arg, OutsideCall>>

CallExtractDomain ==
    /\ called = ""
    /\ ret' = extract_domain(arg)
    /\ called' = "extract_domain"
    /\ UNCHANGED <<arg, OutsideCall>>

CallNext == CallNormalizePhone \/ CallExtractDomain

CallSpec == CallInit /\ [][CallNext]_everything

\* the digits of s in their order, read from its end
RECURSIVE DigitsIn(_)
DigitsIn(s) ==
    IF s = "" THEN ""
    ELSE DigitsIn(SubSeq(s, 1, Len(s) - 1)) \o
         (IF Ch(s, Len(s)) \in DigitSet THEN Ch(s, Len(s)) ELSE "")

\* the phone rule as the specification words it
PhoneAsSpecified(raw) ==
    IF raw = None THEN None
    ELSE LET d == DigitsIn(raw)
             e == IF Len(d) = 11 /\ Ch(d, 1) = "1" THEN SubSeq(d, 2, 11) ELSE d
         IN  IF Len(e) = 10 THEN e ELSE None

\* C11: normalize_phone returns the digits of its argument, without a leading
\* 1 when there are exactly eleven of them, when exactly ten remain, and
\* absent otherwise; the three written forms of 555 123 4567 give
\* "5551234567" and "12345" gives absent.
PhoneNormalized ==
    called = "normalize_phone" =>
        /\ ret = PhoneAsSpecified(arg)
        /\ arg \in {"+1 (555) 123-4567", "555.123.4567", "15551234567"}
              => ret = "5551234567"
        /\ arg = "12345" => ret = None

\* the call on a value with punctuation and a country code
PhoneNormalizedWitness ==
    /\ called = "normalize_phone"
    /\ arg = "+1 (555) 123-4567"
    /\ ret = "5551234567"

\* a scheme is missing when the text does not begin with letters, digits,
\* "+", "-" or "." up to a colon
SchemeMissing(s) ==
    LET colon == FirstOf(s, ":")
    IN  ~ /\ colon > 1
          /\ Ch(s, 1) \in LowerSet \cup UpperSet
          /\ \A k \in 1..(colon - 1) : Ch(s, k) \in SchemeSet

\* the domain rule as the specification words it
DomainAsSpecified(raw) ==
    IF ~Truthy(raw) THEN None
    ELSE LET s0    == lower(strip(raw))
             s     == IF SchemeMissing(s0) THEN "http://" \o s0 ELSE s0
             host0 == urlparse_hostname(s)
             host  == IF startswith(host0, "www.") THEN Drop(host0, 4) ELSE host0
         IN  IF InStr(".", host) /\ Len(host) >= 4 THEN host ELSE None

\* C12: extract_domain lowercases its argument, prepends a scheme when none
\* is there, takes the host, strips one leading "www." and returns the host
\* when it has a dot and at least four characters, absent otherwise.
DomainExtractedAsSpecified ==
    called = "extract_domain" => ret = DomainAsSpecified(arg)

----------------------------------------------------------------------------
(* The source loaders: load_excel (build-prospect-data.py), load_api_csv    *)
(* and load_prospect_dealers (build-pe-allied-dealers.py), import_dealers   *)
(* (import_excel.py).                                                       *)
(*                                                                          *)
(* A cell of a source is a record: its Python type, str(value), and, for a  *)
(* float, whether value < 1.  A loaded record keeps the identifier and the  *)
(* name of the dealer; a dict is the sequence of its values in insertion    *)
(* order.                                                                   *)

MaxRows == 2

StrCell(s) == [type |-> "str", text |-> s, below_one |-> FALSE]
IntCell(s) == [type |-> "int", text |-> s, below_one |-> FALSE]
FloatCell(s, b) == [type |-> "float", text |-> s, below_one |-> b]
NaN == [type |-> "nan", text |-> "nan", below_one |-> FALSE]
NoneCell == [type |-> "none", text |-> "None", below_one |-> FALSE]

\* pd.isna(value)
isna(value) == value.type \in {"nan", "none"}

\* str(value)
str(value) == value.text

\* safe_str of build-prospect-data.py
safe_str(val) ==
    IF isna(val) \/ strip(str(val)) \in {"", "nan", "None", "NaT"}
    THEN None ELSE strip(str(val))

\* safe_str of build-pe-allied-dealers.py
pe_safe_str(val) ==
    IF val.type = "none" THEN None
    ELSE LET s == strip(str(val))
         IN  IF s \in {"", "NULL", "null", "None", "none", "nan"} THEN None ELSE s

\* a JSON value as the Python value json.load gives
json_value(val) == IF val.type = "none" THEN None ELSE str(val)

TempWidth == 3

\* f"{k:03d}"
Format03d(k) ==
    LET t == ToString(k)
    IN  IF Len(t) >= TempWidth THEN t ELSE SubSeq("000", 1, TempWidth - Len(t)) \o t

\* faulty variant of clean_dealer_no: a missing key takes a number too
clean_dealer_no_counts_missing(value, counter) ==
    IF isna(value) THEN [id |-> None, counter |-> counter + 1]
    ELSE IF InStr("e", lower(str(value))) \/ (value.type = "float" /\ value.below_one)
    THEN [id |-> "TEMP-" \o Format03d(counter + 1), counter |-> counter + 1]
    ELSE LET s == str(value)
             t == IF InStr(".", s) THEN SubSeq(s, 1, FirstOf(s, ".") - 1) ELSE s
         IN  [id |-> IF t /= "" THEN strip(t) ELSE None, counter |-> counter]

\* clean_dealer_no(value) with _dummy_counter = counter: the value returned
\* and the counter afterwards
clean_dealer_no(value, counter) ==
    IF isna(value) THEN [id |-> None, counter |-> counter]
    ELSE IF value.type = "float" /\ (value.below_one \/ InStr("e", lower(str(value))))
    THEN [id |-> "TEMP-" \o Format03d(counter + 1), counter |-> counter + 1]
    ELSE LET s == str(value)
         IN  IF InStr("e", lower(s))
             THEN [id |-> "TEMP-" \o Format03d(counter + 1), counter |-> counter + 1]
             ELSE LET t == IF InStr(".", s)
                           THEN SubSeq(s, 1, FirstOf(s, ".") - 1) ELSE s
                  IN  [id |-> IF t /= "" THEN strip(t) ELSE None,
                       counter |-> counter]

\* the cells a source can hold in its key column and in its name column
ExcelKeys ==
    {StrCell("100"), StrCell("100 "), StrCell(" 100"), StrCell("200"),
     StrCell(" "), StrCell("nan"), NaN}
CsvKeys ==
    {StrCell("100"), StrCell("100 "), StrCell("200"), StrCell(""),
     StrCell("NULL"), NoneCell}
JsonKeys ==
    {StrCell("100"), StrCell("100 "), StrCell("200"), StrCell(""), NoneCell}
ImportKeys ==
    {IntCell("100"), FloatCell("100.0", FALSE), FloatCell("1e-07", TRUE),
     FloatCell("0.5", TRUE), FloatCell("1e+16", FALSE), StrCell("100"),
     StrCell("1E5"), StrCell(" 200 "), StrCell("TEMP-001"), NaN}
Names == {StrCell("A"), StrCell("B")}

Loaders == {"load_excel", "load_api_csv", "load_prospect_dealers", "import_dealers"}

SourceRows(l) ==
    IF l = "load_excel" THEN [dealer_no : ExcelKeys, dealer_name : Names]
    ELSE IF l = "load_api_csv" THEN [dealer_no : CsvKeys, dealer_name : Names]
    ELSE IF l = "load_prospect_dealers" THEN [dealer_no : JsonKeys, dealer_name : Names]
    ELSE [dealer_no : ImportKeys, dealer_name : Names \cup {NaN}]

\* the loop goes on with row k of len rows, or the loader returns
AfterRow(k, len) == IF k > len THEN "done" ELSE "rows"

\* the first pc of a loader over the rows src
FirstPc(l, src) == IF l = "load_excel" THEN "read" ELSE AfterRow(1, Len(src))

\* what a loader leaves alone
OutsideLoad == <<vars, call, scoring, pipeline, extra>>
OutsideLoadAtRest ==
    MatcherAtRest /\ CallAtRest /\ ScoringAtRest /\ PipelineAtRest /\ ExtraAtRest

LoadInit ==
    /\ loader \in Loaders
    /\ source \in UNION {[1..m -> SourceRows(loader)] : m \in 0..MaxRows}
    /\ edf = <<>>
    /\ row_no = 1
    /\ dealers = <<>>
    /\ dummy_counter = 0
    /\ imported = 0
    /\ skipped = 0
    /\ lpc = FirstPc(loader, source)
    /\ run = 1
    /\ previous = <<>>
    /\ OutsideLoadAtRest

\* d[rec["dealer_no"]] = rec on a dict kept as the sequence of its values
DictSet(d, rec) ==
    IF \E k \in 1..Len(d) : d[k].dealer_no = rec.dealer_no
    THEN [k \in 1..Len(d) |-> IF d[k].dealer_no = rec.dealer_no THEN rec ELSE d[k]]
    ELSE Append(d, rec)

\* df.drop_duplicates(subset="Dealer No", keep="first")
RECURSIVE drop_duplicates(_)
drop_duplicates(df) ==
    IF df = <<>> THEN <<>>
    ELSE LET front == SubSeq(df, 1, Len(df) - 1)
             last  == df[Len(df)]
         IN  IF \E k \in 1..Len(front) : front[k].dealer_no = last.dealer_no
             THEN drop_duplicates(front)
             ELSE Append(drop_duplicates(front), last)

\* load_excel: read_excel, drop_duplicates and the notna / != "nan" filter
load_excel_read ==
    /\ loader = "load_excel"
    /\ lpc = "read"
    /\ LET frame == SelectSeq(drop_duplicates(source),
                              LAMBDA r : ~isna(r.dealer_no) /\ str(r.dealer_no) /= "nan")
       IN  /\ edf' = frame
           /\ lpc' = AfterRow(1, Len(frame))
    /\ UNCHANGED <<loader, source, row_no, dealers, dummy_counter, imported,
                   skipped, run, previous, OutsideLoad>>

\* load_excel: one pass of the loop over edf
load_excel_row ==
    /\ loader = "load_excel"
    /\ lpc = "rows"
    /\ LET row == edf[row_no]
           the_dno == strip(str(row.dealer_no))
       IN  dealers' =
             IF the_dno = "" THEN dealers
             ELSE DictSet(dealers, [dealer_no |-> the_dno,
                                    dealer_name |-> OrEmpty(safe_str(row.dealer_name))])
    /\ row_no' = row_no + 1
    /\ lpc' = AfterRow(row_no + 1, Len(edf))
    /\ UNCHANGED <<loader, source, edf, dummy_counter, imported, skipped, run,
                   previous, OutsideLoad>>

\* load_api_csv: one pass of the loop over the reader
load_api_csv_row ==
    /\ loader = "load_api_csv"
    /\ lpc = "rows"
    /\ LET row == source[row_no]
           dealer_no == pe_safe_str(row.dealer_no)
       IN  dealers' =
             IF ~Truthy(dealer_no) THEN dealers
             ELSE Append(dealers, [dealer_no |-> dealer_no,
                                   dealer_name |-> pe_safe_str(row.dealer_name)])
    /\ row_no' = row_no + 1
    /\ lpc' = AfterRow(row_no + 1, Len(source))
    /\ UNCHANGED <<loader, source, edf, dummy_counter, imported, skipped, run,
                   previous, OutsideLoad>>

\* load_prospect_dealers: one pass of the loop that builds by_no
load_prospect_dealers_row ==
    /\ loader = "load_prospect_dealers"
    /\ lpc = "rows"
    /\ LET d   == source[row_no]
           the_dno == json_value(d.dealer_no)
       IN  dealers' =
             IF ~Truthy(the_dno) THEN dealers
             ELSE DictSet(dealers, [dealer_no |-> the_dno,
                                    dealer_name |-> json_value(d.dealer_name)])
    /\ row_no' = row_no + 1
    /\ lpc' = AfterRow(row_no + 1, Len(source))
    /\ UNCHANGED <<loader, source, edf, dummy_counter, imported, skipped, run,
                   previous, OutsideLoad>>

\* import_dealers: one pass of the loop; the INSERT of a dealer_no that the
\* table holds raises (PRIMARY KEY), and the except clause skips the row
import_dealers_row ==
    /\ loader = "import_dealers"
    /\ lpc = "rows"
    /\ LET row         == source[row_no]
           cleaned     == clean_dealer_no(row.dealer_no, dummy_counter)
           dealer_no   == cleaned.id
           dealer_name == IF isna(row.dealer_name) THEN None
                          ELSE strip(str(row.dealer_name))
           inserted    == /\ Truthy(dealer_no)
                          /\ Truthy(dealer_name)
                          /\ \A k \in 1..Len(dealers) : dealers[k].dealer_no /= dealer_no
       IN  /\ dummy_counter' = cleaned.counter
           /\ dealers' = IF inserted
                         THEN Append(dealers, [dealer_no |-> dealer_no,
                                               dealer_name |-> dealer_name])
                         ELSE dealers
           /\ imported' = IF inserted THEN imported + 1 ELSE imported
           /\ skipped' = IF inserted THEN skipped ELSE skipped + 1
    /\ row_no' = row_no + 1
    /\ lpc' = AfterRow(row_no + 1, Len(source))
    /\ UNCHANGED <<loader, source, edf, run, previous, OutsideLoad>>

\* faulty variant of NewProcess: the counter of the first run is carried over
NewProcessKeepsCounter ==
    /\ lpc = "done"
    /\ run = 1
    /\ run' = 2
    /\ previous' = dealers
    /\ dealers' = <<>>
    /\ edf' = <<>>
    /\ row_no' = 1
    /\ imported' = 0
    /\ skipped' = 0
    /\ lpc' = FirstPc(loader, source)
    /\ UNCHANGED <<loader, source, dummy_counter, OutsideLoad>>

\* the script is run a second time on the same source: a new process, its
\* module globals initialised again, its output rebuilt from nothing
NewProcess ==
    /\ lpc = "done"
    /\ run = 1
    /\ run' = 2
    /\ previous' = dealers
    /\ dealers' = <<>>
    /\ edf' = <<>>
    /\ row_no' = 1
    /\ dummy_counter' = 0
    /\ imported' = 0
    /\ skipped' = 0
    /\ lpc' = FirstPc(loader, source)
    /\ UNCHANGED <<loader, source, OutsideLoad>>

LoadNext ==
    \/ load_excel_read
    \/ load_excel_row
    \/ load_api_csv_row
    \/ load_prospect_dealers_row
    \/ import_dealers_row
    \/ NewProcess

LoadSpec == LoadInit /\ [][LoadNext]_everything

----------------------------------------------------------------------------
(* The loaders against the specification *)

\* the key a source row stands for: its raw key without surrounding whitespace
RowKey(r) == IF isna(r.dealer_no) THEN None ELSE strip(str(r.dealer_no))

\* the keys of the source that name a dealer
UsableKeys == {RowKey(source[k]) : k \in 1..Len(source)} \ {None, "", "nan"}

RowsOfKey(K) == {k \in 1..Len(source) : RowKey(source[k]) = K}

RecordsOfKey(K) == {k \in 1..Len(dealers) : strip(dealers[k].dealer_no) = K}

FirstRowOfKey(K) ==
    source[CHOOSE k \in RowsOfKey(K) : \A m \in RowsOfKey(K) : k <= m]

\* C13: when load_excel or load_prospect_dealers has returned, a key that
\* several source rows carry, whitespace around it aside, has exactly one
\* record, and the record holds the name of the first of these rows.
FirstRowSurvives ==
    (lpc = "done" /\ loader \in {"load_excel", "load_prospect_dealers"}) =>
        \A K \in UsableKeys :
            Cardinality(RowsOfKey(K)) > 1 =>
                /\ Cardinality(RecordsOfKey(K)) = 1
                /\ \A k \in RecordsOfKey(K) :
                      dealers[k].dealer_name = str(FirstRowOfKey(K).dealer_name)

IsTemp(id) == startswith(id, "TEMP-")

\* C14: the records that load_excel, load_api_csv or import_dealers has
\* loaded have identifiers that differ two by two, and a TEMP- identifier is
\* the identifier of one record only.
IdentifiersUnique ==
    loader \in {"load_excel", "load_api_csv", "import_dealers"} =>
        \A a, b \in 1..Len(dealers) :
            a /= b =>
                /\ dealers[a].dealer_no /= dealers[b].dealer_no
                /\ IsTemp(dealers[a].dealer_no) =>
                      dealers[a].dealer_no /= dealers[b].dealer_no

\* a malformed key: a float below 1, or a value whose text has an exponent
Malformed(value) ==
    /\ ~isna(value)
    /\ \/ value.type = "float" /\ value.below_one
       \/ InStr("e", str(value)) \/ InStr("E", str(value))

\* the synthetic identifiers in the order they are given out
TempIds == <<"TEMP-001", "TEMP-002", "TEMP-003", "TEMP-004">>

\* C15: in a pass of import_dealers over a row, a malformed key raises the
\* counter by one and, the row having a name, the row is inserted under
\* TEMP- and the new count on three digits, whatever the malformed value; a
\* well-formed or missing key leaves the counter as it is; within a process
\* the counter never decreases.
TempCounterSequential ==
    [][ /\ (loader = "import_dealers" /\ lpc = "rows") =>
              LET value == source[row_no].dealer_no
                  named == ~isna(source[row_no].dealer_name)
              IN  IF Malformed(value)
                  THEN /\ dummy_counter' = dummy_counter + 1
                       /\ named =>
                            /\ Len(dealers') = Len(dealers) + 1
                            /\ dealers'[Len(dealers')].dealer_no = TempIds[dummy_counter']
                  ELSE /\ dummy_counter' = dummy_counter
                       /\ \A k \in 1..Len(dealers') :
                             k > Len(dealers) => ~IsTemp(dealers'[k].dealer_no)
        /\ run' = run => dummy_counter' >= dummy_counter ]_load

\* two rows with different malformed keys, loaded as TEMP-001 and TEMP-002
TempCounterSequentialWitness ==
    /\ loader = "import_dealers"
    /\ lpc = "done"
    /\ Len(source) = 2
    /\ Malformed(source[1].dealer_no)
    /\ Malformed(source[2].dealer_no)
    /\ source[1].dealer_no /= source[2].dealer_no
    /\ dummy_counter = 2
    /\ Len(dealers) = 2
    /\ dealers[1].dealer_no = "TEMP-001"
    /\ dealers[2].dealer_no = "TEMP-002"

----------------------------------------------------------------------------
(* Enrichment and scoring of one dealer (build-prospect-data.py).           *)
(*                                                                          *)
(* An int or float that can be None is Absent or Some(value).  Numbers with *)
(* one decimal (the averages, the score) are kept in tenths, the engagement *)
(* rate, with two decimals, in hundredths.  A date is the number of days it *)
(* lies before REFERENCE_DATE; a timestamp is kept as its date.             *)

Some(v) == <<v>>
Absent == <<>>

\* d.get(k) of a numeric field
GetNum(d, k) == IF k \in DOMAIN d THEN d[k] ELSE Absent

\* `v and v > t`
Over(v, t) == v /= Absent /\ v[1] /= 0 /\ v[1] > t

\* the dict without the keys ks
Without(d, ks) == [k \in DOMAIN d \ ks |-> d[k]]

\* a over b rounded to the nearest integer, for a >= 0 and b > 0
RoundDiv(a, b) == (2 * a + b) \div (2 * b)

WindowDays == 90

\* load_post_performance: the update of a dealer whose group holds posts[t]
\* rows of date t, with these totals of engagements and impressions
post_stats(posts, engagements, impressions) ==
    LET dated        == {t \in DOMAIN posts : posts[t] > 0}
        last_post    == CHOOSE t \in dated : \A u \in dated : t <= u
        three_mo_ago == last_post + WindowDays
        recent       == {t \in dated : t <= three_mo_ago}
        RECURSIVE Rows(_)
        Rows(ts) == IF ts = {} THEN 0
                    ELSE LET t == CHOOSE u \in ts : TRUE
                         IN  posts[t] + Rows(ts \ {t})
        \* months = max(90 / 30.44, 1) = 90 / 30.44
        avg_last_3mo == RoundDiv(Rows(recent) * 3044, 10 * WindowDays)
        eng_rate     == IF impressions > 0
                        THEN Some(RoundDiv(engagements * 10000, impressions))
                        ELSE Absent
    IN  [sprout_total_posts |-> Some(Rows(dated)),
         sprout_last_post_date |-> Some(last_post),
         sprout_engagement_rate |-> eng_rate]
        @@ ("_avg_posts_last_3mo_sprout" :> Some(avg_last_3mo))
        @@ ("_last_post_sprout" :> Some(last_post))

compute_page_status(avg_posts_per_month) ==
    IF avg_posts_per_month = Absent THEN None
    ELSE IF avg_posts_per_month[1] = 0 THEN "dark"
    ELSE IF avg_posts_per_month[1] <= 30 THEN "grey"
    ELSE IF avg_posts_per_month[1] <= 70 THEN "cloudy"
    ELSE IF avg_posts_per_month[1] <= 200 THEN "sunny"
    ELSE "tornado"

StaleDays == 90

\* faulty variant of overridden_average: a computed average is never replaced
overridden_average_only_without_average(avg_3mo, last_post_sprout) ==
    IF last_post_sprout /= Absent /\ last_post_sprout[1] > StaleDays /\ avg_3mo = Absent
    THEN Some(0) ELSE avg_3mo

\* compute_scores: avg_3mo after the check of the last post against
\* REFERENCE_DATE
overridden_average(avg_3mo, last_post_sprout) ==
    IF last_post_sprout /= Absent /\ last_post_sprout[1] > StaleDays
    THEN Some(0) ELSE avg_3mo

\* faulty variant of natural_score: a website costs half a point
natural_score_website_penalty(d, page_status) ==
      (IF Truthy(Get(d, "first_post_date")) THEN 20 ELSE 0)
    + (IF Over(GetNum(d, "posting_days"), 365) THEN 10 ELSE 0)
    + (IF Get(d, "program_status") = "FULL" THEN 10 ELSE 0)
    + (IF Get(d, "tier_investment") = "high" THEN 10 ELSE 0)
    - (IF Truthy(Get(d, "dealer_web_address")) THEN 5 ELSE 0)
    + (IF Over(GetNum(d, "enrollment_days"), 730) THEN 5 ELSE 0)
    + (IF Over(GetNum(d, "sprout_followers"), 250) THEN 5 ELSE 0)
    + (IF Over(GetNum(d, "sprout_received_pms"), 25) THEN 5 ELSE 0)
    + (IF Over(GetNum(d, "sprout_page_actions"), 0) THEN 5 ELSE 0)
    + (IF page_status \in {"dark", "grey"} THEN 10 ELSE 0)
    + (IF Over(GetNum(d, "sprout_follower_growth"), 0) THEN 5 ELSE 0)
    + (IF Over(GetNum(d, "sprout_engagement_rate"), 1000) THEN 10 ELSE 0)

\* compute_scores: score before the opt-out penalty
natural_score(d, page_status) ==
      (IF Truthy(Get(d, "first_post_date")) THEN 20 ELSE 0)
    + (IF Over(GetNum(d, "posting_days"), 365) THEN 10 ELSE 0)
    + (IF Get(d, "program_status") = "FULL" THEN 10 ELSE 0)
    + (IF Get(d, "tier_investment") = "high" THEN 10 ELSE 0)
    + (IF Truthy(Get(d, "dealer_web_address")) THEN 5 ELSE 0)
    + (IF Over(GetNum(d, "enrollment_days"), 730) THEN 5 ELSE 0)
    + (IF Over(GetNum(d, "sprout_followers"), 250) THEN 5 ELSE 0)
    + (IF Over(GetNum(d, "sprout_received_pms"), 25) THEN 5 ELSE 0)
    + (IF Over(GetNum(d, "sprout_page_actions"), 0) THEN 5 ELSE 0)
    + (IF page_status \in {"dark", "grey"} THEN 10 ELSE 0)
    + (IF Over(GetNum(d, "sprout_follower_growth"), 0) THEN 5 ELSE 0)
    + (IF Over(GetNum(d, "sprout_engagement_rate"), 1000) THEN 10 ELSE 0)

OptOutScore == -990

\* faulty variant of penalised_score: the penalty is taken off the score
penalised_score_subtracting(d, score) ==
    IF d.is_opt_out THEN score + OptOutScore ELSE score

\* compute_scores: score after the opt-out penalty
penalised_score(d, score) == IF d.is_opt_out THEN OptOutScore ELSE score

\* compute_scores: the tier of a score
prospect_tier(score) ==
    IF score >= 70 THEN "hot" ELSE IF score >= 40 THEN "warm" ELSE "cold"

\* compute_scores: the body of the loop for the dealer d
compute_scores(d) ==
    LET last_post_sprout == GetNum(d, "_last_post_sprout")
        avg_3mo == overridden_average(GetNum(d, "_avg_posts_last_3mo_sprout"),
                                      last_post_sprout)
        page_status == compute_page_status(avg_3mo)
        score == penalised_score(d, natural_score(d, page_status))
    IN  [page_status |-> page_status,
         page_status_source |-> IF avg_3mo /= Absent THEN "sprout" ELSE None,
         last_post_date |-> IF last_post_sprout /= Absent THEN last_post_sprout
                            ELSE GetNum(d, "sprout_last_post_date"),
         avg_posts_last_3mo |-> avg_3mo,
         apify_last_post_date |-> None,
         apify_scrape_date |-> None,
         prospect_score |-> score,
         prospect_tier |-> prospect_tier(score)]
        @@ Without(d, {"_avg_posts_last_3mo_sprout", "_last_post_sprout"})

\* the dealers that are scored: the fields compute_scores reads, on both
\* sides of each threshold.  The fields of load_facebook_pages and
\* load_profile_performance are drawn with the dealer: these loaders and
\* load_post_performance write different keys.
Posting ==
    {[first_post_date |-> None, posting_days |-> Absent],
     [first_post_date |-> "2020-01-15", posting_days |-> Absent],
     [first_post_date |-> "2020-01-15", posting_days |-> Some(365)],
     [first_post_date |-> "2020-01-15", posting_days |-> Some(366)]}

Entities ==
    { p @@ q :
        p \in Posting,
        q \in [dealer_no : {"100"},
               program_status : {"CONTENT", "FULL"},
               tier_investment : {"unknown", "high"},
               dealer_web_address : {None, "example.com"},
               enrollment_days : {Some(730), Some(731)},
               is_opt_out : BOOLEAN,
               sprout_followers : {Some(250), Some(251)},
               sprout_received_pms : {Some(25), Some(26)},
               sprout_page_actions : {Absent, Some(1)},
               sprout_follower_growth : {Some(-1), Some(1)}] }

\* the dates of the posts of a dealer and the rows a date can have
PostDays == {90, 91, 181}
PostCounts == {0, 1, 10, 50}
PostBags == {b \in [PostDays -> PostCounts] : \E t \in PostDays : b[t] > 0}

\* totals of engagements and impressions of a dealer's posts
PostTotals == {<<0, 0>>, <<10, 100>>, <<1001, 10000>>}

\* what the scoring of a dealer leaves alone
OutsideScoring == <<vars, call, load, pipeline, extra>>
OutsideScoringAtRest ==
    MatcherAtRest /\ CallAtRest /\ LoadAtRest /\ PipelineAtRest /\ ExtraAtRest

ScoringInit ==
    /\ entity \in Entities
    /\ spc = "loaded"
    /\ OutsideScoringAtRest

\* load_post_performance: the dealer has posts in the files
load_post_performance_dealer ==
    /\ spc = "loaded"
    /\ \E posts \in PostBags : \E totals \in PostTotals :
          entity' = post_stats(posts, totals[1], totals[2]) @@ entity
    /\ spc' = "enriched"
    /\ UNCHANGED OutsideScoring

\* load_post_performance: no file is found, or no post is the dealer's
load_post_performance_skip ==
    /\ spc = "loaded"
    /\ spc' = "enriched"
    /\ UNCHANGED <<entity, OutsideScoring>>

compute_scores_dealer ==
    /\ spc = "enriched"
    /\ entity' = compute_scores(entity)
    /\ spc' = "scored"
    /\ UNCHANGED OutsideScoring

ScoringNext ==
    \/ load_post_performance_dealer
    \/ load_post_performance_skip
    \/ compute_scores_dealer

ScoringSpec == ScoringInit /\ [][ScoringNext]_everything

----------------------------------------------------------------------------
(* The scoring against the specification *)

Scored == spc = "scored"

ScoringStep == spc = "enriched" /\ spc' = "scored"

\* C18: a scored dealer with the opt-out flag has score -99 and tier cold,
\* whatever its other fields; a scored dealer without the flag has a score
\* above -99.
OptOutSentinel ==
    Scored =>
        IF entity.is_opt_out
        THEN entity.prospect_score = -990 /\ entity.prospect_tier = "cold"
        ELSE entity.prospect_score > -990

\* an opted-out dealer whose other fields alone would make it hot
OptOutSentinelWitness ==
    /\ Scored
    /\ entity.is_opt_out
    /\ entity.prospect_score = -990
    /\ entity.prospect_tier = "cold"
    /\ natural_score(entity, entity.page_status) >= 70

\* the scoring predicates, by the field each one reads
ScorePredicates ==
    {"first_post_date", "posting_days", "program_status", "tier_investment",
     "dealer_web_address", "enrollment_days", "sprout_followers",
     "sprout_received_pms", "sprout_page_actions", "page_status",
     "sprout_follower_growth", "sprout_engagement_rate"}

\* the page status compute_scores gives the unscored dealer d
StatusOf(d) ==
    compute_page_status(overridden_average(GetNum(d, "_avg_posts_last_3mo_sprout"),
                                           GetNum(d, "_last_post_sprout")))

NumberOf(d, k) == IF GetNum(d, k) = Absent THEN 0 ELSE GetNum(d, k)[1]

\* the predicate p holds of the unscored dealer d
Holds(p, d) ==
    CASE p = "first_post_date" -> Get(d, p) \notin {None, ""}
      [] p = "posting_days" -> NumberOf(d, p) > 365
      [] p = "program_status" -> Get(d, p) = "FULL"
      [] p = "tier_investment" -> Get(d, p) = "high"
      [] p = "dealer_web_address" -> Get(d, p) \notin {None, ""}
      [] p = "enrollment_days" -> NumberOf(d, p) > 730
      [] p = "sprout_followers" -> NumberOf(d, p) > 250
      [] p = "sprout_received_pms" -> NumberOf(d, p) > 25
      [] p = "sprout_page_actions" -> NumberOf(d, p) > 0
      [] p = "page_status" -> StatusOf(d) \in {"dark", "grey"}
      [] p = "sprout_follower_growth" -> NumberOf(d, p) > 0
      [] p = "sprout_engagement_rate" -> NumberOf(d, p) > 1000

\* the dealer d with the predicate p made true and every other field as it is
Raise(p, d) ==
    CASE p = "first_post_date" -> [first_post_date |-> "2020-01-15"] @@ d
      [] p = "posting_days" -> [posting_days |-> Some(366)] @@ d
      [] p = "program_status" -> [program_status |-> "FULL"] @@ d
      [] p = "tier_investment" -> [tier_investment |-> "high"] @@ d
      [] p = "dealer_web_address" -> [dealer_web_address |-> "example.com"] @@ d
      [] p = "enrollment_days" -> [enrollment_days |-> Some(731)] @@ d
      [] p = "sprout_followers" -> [sprout_followers |-> Some(251)] @@ d
      [] p = "sprout_received_pms" -> [sprout_received_pms |-> Some(26)] @@ d
      [] p = "sprout_page_actions" -> [sprout_page_actions |-> Some(1)] @@ d
      [] p = "page_status" -> ("_avg_posts_last_3mo_sprout" :> Some(30)) @@ d
      [] p = "sprout_follower_growth" -> [sprout_follower_growth |-> Some(1)] @@ d
      [] p = "sprout_engagement_rate" -> [sprout_engagement_rate |-> Some(1001)] @@ d

TierRank == [cold |-> 1, warm |-> 2, hot |-> 3]

\* C19: when a dealer without the opt-out flag is scored, the same dealer
\* with any one false predicate made true, every other predicate as it is,
\* would get a score that is not lower and a tier that is not lower.
ScoreMonotone ==
    [][ (ScoringStep /\ ~entity.is_opt_out) =>
          \A p \in ScorePredicates :
              ~Holds(p, entity) =>
                  LET raised == compute_scores(Raise(p, entity))
                  IN  /\ Holds(p, Raise(p, entity))
                      /\ \A q \in ScorePredicates \ {p} :
                            Holds(q, Raise(p, entity)) <=> Holds(q, entity)
                      /\ raised.prospect_score >= entity'.prospect_score
                      /\ TierRank[raised.prospect_tier]
                            >= TierRank[entity'.prospect_tier] ]_scoring

\* a warm dealer half a point under hot that has no website
ScoreMonotoneWitness ==
    /\ Scored
    /\ ~entity.is_opt_out
    /\ entity.prospect_score = 65
    /\ entity.prospect_tier = "warm"
    /\ entity.dealer_web_address = None

\* C20: when a dealer with a last post is scored, its trailing average has
\* been computed before; a last post more than 90 days before the reference
\* date gives average 0 and status dark whatever that average is, a last post
\* 90 days or less before it leaves the average and gives the status of that
\* average.
StaleForcedDark ==
    [][ (ScoringStep /\ "_last_post_sprout" \in DOMAIN entity) =>
          LET computed == GetNum(entity, "_avg_posts_last_3mo_sprout")
              age      == entity["_last_post_sprout"][1]
          IN  /\ computed /= Absent
              /\ computed[1] > 0
              /\ IF age > 90
                 THEN /\ entity'.avg_posts_last_3mo = Some(0)
                      /\ entity'.page_status = "dark"
                 ELSE /\ entity'.avg_posts_last_3mo = computed
                      /\ entity'.page_status = compute_page_status(computed) ]_scoring

\* a dealer with eleven posts whose last post is 91 days old
StaleForcedDarkWitness ==
    /\ Scored
    /\ entity.last_post_date = Some(91)
    /\ GetNum(entity, "sprout_total_posts") = Some(11)
    /\ entity.page_status = "dark"
    /\ entity.avg_posts_last_3mo = Some(0)

----------------------------------------------------------------------------
(* The two build scripts from their source files to their output            *)
(* (build-prospect-data.py and build-pe-allied-dealers.py, main).           *)
(*                                                                          *)
(* A source file is named by the constant that holds its path.  Its rows    *)
(* are fixed; which files exist is chosen at the start of a run.  The       *)
(* printed lines that matter, the ERROR and WARNING lines, are kept in log. *)

\* POST_PERFORMANCE_FILES, by the years each file covers
POST_PERFORMANCE_FILES ==
    <<"posts_2020_2021", "posts_2021_2022", "posts_2022_2023",
      "posts_2023_2024", "posts_2024_2025", "posts_2025", "posts_2026">>

Scripts == {"build-prospect-data", "build-pe-allied-dealers"}

\* the files a script reads
Files(s) ==
    IF s = "build-prospect-data"
    THEN {"EXCEL_PATH", "FACEBOOK_PAGES_PATH", "PROFILE_PERF_PATH", "ALLIED_API_CSV"}
         \cup {POST_PERFORMANCE_FILES[k] : k \in 1..Len(POST_PERFORMANCE_FILES)}
    ELSE {"ALLIED_API_CSV", "PROSPECT_DEALERS_JSON", "WC_DEALER_NOS_JSON"}

\* build-prospect-data.py, normalize_name, on the ASCII range
RECURSIVE tabs_to_spaces(_)
tabs_to_spaces(s) ==
    IF s = "" THEN ""
    ELSE (IF Ch(s, 1) = "\t" THEN " " ELSE Ch(s, 1)) \o tabs_to_spaces(Tail(s))

page_name(s) == strip(tabs_to_spaces(s))

\* what load_excel returns for the workbook of the model
ExcelDealers ==
    <<[dealer_no |-> "100", dealer_name |-> "Acme Air",
       facebook_page_name |-> "acme", first_post_date |-> "2020-01-15",
       posting_days |-> Some(366), program_status |-> "FULL",
       tier_investment |-> "high", dealer_web_address |-> None,
       enrollment_days |-> Some(731), is_opt_out |-> FALSE,
       data_sources |-> <<"excel">>],
      [dealer_no |-> "200", dealer_name |-> "",
       facebook_page_name |-> None, first_post_date |-> None,
       posting_days |-> Absent, program_status |-> "CONTENT",
       tier_investment |-> "unknown", dealer_web_address |-> "example.com",
       enrollment_days |-> Some(100), is_opt_out |-> FALSE,
       data_sources |-> <<"excel">>],
      [dealer_no |-> "300", dealer_name |-> "Beta Heating",
       facebook_page_name |-> "beta", first_post_date |-> "2021-03-01",
       posting_days |-> Some(30), program_status |-> "CONTENT",
       tier_investment |-> "standard", dealer_web_address |-> None,
       enrollment_days |-> Absent, is_opt_out |-> TRUE,
       data_sources |-> <<"excel">>]>>

Post(id, profile, day, engagements, impressions) ==
    [post_id |-> id, Profile |-> profile, day |-> day,
     Engagements |-> engagements, Impressions |-> impressions]

\* the rows of the post performance files; the files of 2024-2025 and of 2025
\* hold the same post
PostRows ==
    [f \in {POST_PERFORMANCE_FILES[k] : k \in 1..Len(POST_PERFORMANCE_FILES)} |->
        CASE f = "posts_2020_2021" -> <<Post(1, "acme", 2000, 1, 10)>>
          [] f = "posts_2021_2022" -> <<Post(2, "beta", 1500, 2, 0)>>
          [] f = "posts_2022_2023" -> <<Post(3, " acme\t", 1200, 1, 10)>>
          [] f = "posts_2023_2024" -> <<Post(4, "other", 800, 9, 90)>>
          [] f = "posts_2024_2025" -> <<Post(5, "acme", 500, 1, 10),
                                        Post(6, "acme", 100, 3, 50)>>
          [] f = "posts_2025"      -> <<Post(6, "acme", 100, 3, 50)>>
          [] f = "posts_2026"      -> <<Post(7, "acme", 30, 5, 25),
                                        Post(8, "acme", 30, 5, 25)>>]

\* the rows of the Facebook Pages file, one row a page
FacebookPages ==
    <<[page |-> "acme ", Followers |-> Some(300), growth |-> Some(5),
       actions |-> Some(2), reach |-> Some(1000)],
      [page |-> "other", Followers |-> Some(10), growth |-> Absent,
       actions |-> Some(0), reach |-> Some(0)]>>

\* the rows of the Profile Performance file, one row a profile
ProfilePerformance ==
    <<[Profile |-> "beta", received |-> Some(26), sent |-> Some(3)],
      [Profile |-> "other", received |-> Some(1), sent |-> Some(0)]>>

\* the rows of the Allied Air API CSV as build-prospect-data.py reads them
ApiRows ==
    <<[dealer_no |-> StrCell(" 100"), street |-> StrCell("1 Main St"),
       postal_code |-> StrCell("30301"), brands |-> StrCell("ARM|AIR"),
       dealer_website |-> StrCell("acme.example")],
      [dealer_no |-> StrCell("200"), street |-> NaN, postal_code |-> NaN,
       brands |-> NaN, dealer_website |-> StrCell("other.example")],
      [dealer_no |-> StrCell("400"), street |-> StrCell("2 Side St"),
       postal_code |-> NaN, brands |-> NaN, dealer_website |-> NaN]>>

\* what load_api_csv returns for the same file
ApiDealers ==
    <<[dealer_no |-> "100", status |-> "A"],
      [dealer_no |-> "200", status |-> "A"],
      [dealer_no |-> "300", status |-> "D"],
      [dealer_no |-> "400", status |-> "A"],
      [dealer_no |-> "500", status |-> "D"],
      [dealer_no |-> "600", status |-> "X"]>>

\* the list in PROSPECT_DEALERS_JSON
ProspectJson ==
    <<[dealer_no |-> "100", prospect_score |-> Some(65),
       prospect_tier |-> "warm", experience_level |-> "A",
       page_status |-> "dark", ever_had_fb_admin |-> TRUE,
       targetable |-> TRUE, sprout_engagement_rate |-> Some(1250),
       sprout_followers |-> Some(300), sprout_total_posts |-> Some(6)],
      [dealer_no |-> "200", prospect_score |-> Some(5),
       prospect_tier |-> "cold", experience_level |-> "E",
       page_status |-> None, ever_had_fb_admin |-> FALSE,
       targetable |-> FALSE],
      [dealer_no |-> "300", prospect_score |-> Some(-990),
       prospect_tier |-> "cold", experience_level |-> "B",
       page_status |-> "grey", ever_had_fb_admin |-> TRUE,
       targetable |-> FALSE, sprout_followers |-> Absent,
       sprout_total_posts |-> Some(1)]>>

\* the list in WC_DEALER_NOS_JSON
WcDealerNos == {"100", "700"}

Line(level, file) == [level |-> level, file |-> file]

\* fb_to_dealer.get(name): the last dealer of that page name
fb_to_dealer(ds, name) ==
    LET named == {k \in 1..Len(ds) : Truthy(ds[k].facebook_page_name)
                                     /\ ds[k].facebook_page_name = name}
    IN  IF named = {} THEN None
        ELSE ds[CHOOSE k \in named : \A o \in named : o <= k].dealer_no

\* d["data_sources"].append(tag) unless it holds tag
with_source(d, tag) ==
    IF \E k \in 1..Len(d.data_sources) : d.data_sources[k] = tag THEN d
    ELSE [d EXCEPT !.data_sources = Append(@, tag)]

\* load_post_performance: frames, the files that exist, in order
frames(exists) == SelectSeq(POST_PERFORMANCE_FILES, LAMBDA f : f \in exists)

\* pd.concat(frames)
RECURSIVE concat(_)
concat(fs) == IF fs = <<>> THEN <<>> ELSE PostRows[Head(fs)] \o concat(Tail(fs))

\* all_posts.drop_duplicates(subset="Post ID", keep="first"), for the rows
\* that come after rows of the Post IDs in seen
RECURSIVE keep_first(_, _)
keep_first(ps, seen) ==
    IF ps = <<>> THEN <<>>
    ELSE IF Head(ps).post_id \in seen THEN keep_first(Tail(ps), seen)
    ELSE <<Head(ps)>> \o keep_first(Tail(ps), seen \cup {Head(ps).post_id})

drop_duplicate_posts(ps) == keep_first(ps, {})

RECURSIVE Sum(_, _)
Sum(ps, col) == IF ps = <<>> THEN 0 ELSE Head(ps)[col] + Sum(Tail(ps), col)

\* load_post_performance(dealers), for the files that exist
load_post_performance(ds, exists) ==
    IF frames(exists) = <<>> THEN ds
    ELSE LET all_posts == drop_duplicate_posts(concat(frames(exists)))
             group(the_dno) ==
                 SelectSeq(all_posts,
                           LAMBDA p : fb_to_dealer(ds, page_name(p.Profile)) = the_dno)
             posts(g) == [t \in {g[k].day : k \in 1..Len(g)} |->
                             Cardinality({k \in 1..Len(g) : g[k].day = t})]
         IN  [k \in 1..Len(ds) |->
                LET g == group(ds[k].dealer_no)
                IN  IF g = <<>> THEN ds[k]
                    ELSE with_source(
                           post_stats(posts(g), Sum(g, "Engagements"),
                                      Sum(g, "Impressions")) @@ ds[k],
                           "sprout_posts")]

\* the last row of a file that belongs to the dealer, 0 if there is none
LastRowOf(rows, col, ds, the_dno) ==
    LET mine == {k \in 1..Len(rows) :
                    fb_to_dealer(ds, page_name(rows[k][col])) = the_dno}
    IN  IF mine = {} THEN 0 ELSE CHOOSE k \in mine : \A o \in mine : o <= k

\* load_facebook_pages(dealers)
load_facebook_pages(ds, exists) ==
    IF "FACEBOOK_PAGES_PATH" \notin exists THEN ds
    ELSE [k \in 1..Len(ds) |->
            LET r == LastRowOf(FacebookPages, "page", ds, ds[k].dealer_no)
            IN  IF r = 0 THEN ds[k]
                ELSE with_source(
                       [sprout_followers |-> FacebookPages[r].Followers,
                        sprout_follower_growth |-> FacebookPages[r].growth,
                        sprout_page_actions |-> FacebookPages[r].actions,
                        sprout_total_reach |-> FacebookPages[r].reach] @@ ds[k],
                       "sprout_pages")]

\* load_profile_performance(dealers)
load_profile_performance(ds, exists) ==
    IF "PROFILE_PERF_PATH" \notin exists THEN ds
    ELSE [k \in 1..Len(ds) |->
            LET r == LastRowOf(ProfilePerformance, "Profile", ds, ds[k].dealer_no)
            IN  IF r = 0 THEN ds[k]
                ELSE with_source(
                       [sprout_received_pms |-> ProfilePerformance[r].received,
                        sprout_sent_pms |-> ProfilePerformance[r].sent] @@ ds[k],
                       "sprout_profile")]

\* d[k] = v if v is truthy
SetIf(d, k, v) == IF Truthy(v) THEN (k :> v) @@ d ELSE d

\* enrich_from_api: the body of the loop for one row and its dealer
enrich_dealer(d, row) ==
    LET street      == safe_str(row.street)
        postal      == safe_str(row.postal_code)
        brands      == safe_str(row.brands)
        api_website == safe_str(row.dealer_website)
        fills       == Truthy(api_website) /\ ~Truthy(Get(d, "dealer_web_address"))
        changed     == Truthy(street) \/ Truthy(postal) \/ Truthy(brands) \/ fills
        d1 == SetIf(d, "api_street", street)
        d2 == SetIf(d1, "api_postal_code", postal)
        d3 == SetIf(d2, "api_brands", brands)
        d4 == IF fills THEN [d3 EXCEPT !.dealer_web_address = api_website] ELSE d3
        d5 == SetIf(d4, "api_dealer_website", api_website)
    IN  IF changed THEN with_source(d5, "allied_api") ELSE d5

RECURSIVE enrich_rows(_, _)
enrich_rows(ds, rows) ==
    IF rows = <<>> THEN ds
    ELSE LET the_dno == strip(str(Head(rows).dealer_no))
         IN  enrich_rows([k \in 1..Len(ds) |->
                            IF ds[k].dealer_no = the_dno
                            THEN enrich_dealer(ds[k], Head(rows)) ELSE ds[k]],
                         Tail(rows))

\* enrich_from_api(dealers)
enrich_from_api(ds, exists) ==
    IF "ALLIED_API_CSV" \notin exists THEN ds ELSE enrich_rows(ds, ApiRows)

\* build-pe-allied-dealers.py, load_prospect_dealers: by_no
RECURSIVE by_no(_)
by_no(ds) ==
    IF ds = <<>> THEN <<>>
    ELSE LET before == by_no(SubSeq(ds, 1, Len(ds) - 1))
             d == ds[Len(ds)]
         IN  IF Truthy(Get(d, "dealer_no")) THEN DictSet(before, d) ELSE before

load_prospect_dealers(exists) ==
    IF "PROSPECT_DEALERS_JSON" \notin exists THEN <<>> ELSE by_no(ProspectJson)

\* faulty variant of load_wc_dealer_nos: the list is used although the file
\* is not found
load_wc_dealer_nos_keeps_list(exists) == WcDealerNos

\* build-pe-allied-dealers.py, load_wc_dealer_nos
load_wc_dealer_nos(exists) ==
    IF "WC_DEALER_NOS_JSON" \notin exists THEN {} ELSE WcDealerNos

\* d.get(k, False)
GetOrFalse(d, k) == IF k \in DOMAIN d THEN d[k] ELSE FALSE

\* faulty variant of segment_dealer: the prospect data is looked at before
\* the suppression list
segment_dealer_prospect_first(api_dealer, prospect_nos, wc) ==
    LET the_dno     == api_dealer.dealer_no
        in_wc       == the_dno \in wc
        in_prospect == \E k \in 1..Len(prospect_nos) :
                          prospect_nos[k].dealer_no = the_dno
        pd          == prospect_nos[CHOOSE k \in 1..Len(prospect_nos) :
                                    prospect_nos[k].dealer_no = the_dno]
        the_segment == IF in_prospect /\ api_dealer.status = "A"
                            THEN "past_turnkey_active"
                       ELSE IF in_prospect THEN "past_turnkey_inactive"
                       ELSE IF in_wc THEN "current_turnkey"
                       ELSE IF api_dealer.status = "A" THEN "active_prospect"
                       ELSE IF api_dealer.status = "D" THEN "deactivated"
                       ELSE "other"
    IN  [allied_segment |-> the_segment,
         is_current_turnkey |-> in_wc,
         was_turnkey_ever |-> in_wc \/ in_prospect,
         is_active_dealer |-> api_dealer.status = "A",
         suppress_from_outreach |-> in_wc,
         prospect_score |-> IF in_prospect THEN GetNum(pd, "prospect_score") ELSE Absent,
         prospect_tier |-> IF in_prospect THEN Get(pd, "prospect_tier") ELSE None,
         experience_level |-> IF in_prospect THEN Get(pd, "experience_level") ELSE None,
         page_status |-> IF in_prospect THEN Get(pd, "page_status") ELSE None,
         ever_had_fb_admin |-> IF in_prospect THEN GetOrFalse(pd, "ever_had_fb_admin")
                               ELSE FALSE,
         targetable |-> IF in_prospect THEN GetOrFalse(pd, "targetable") ELSE FALSE,
         sprout_engagement_rate |-> IF in_prospect THEN GetNum(pd, "engagement_rate")
                                    ELSE Absent,
         sprout_followers |-> IF in_prospect THEN GetNum(pd, "sprout_followers")
                              ELSE Absent,
         sprout_total_posts |-> IF in_prospect THEN GetNum(pd, "sprout_total_posts")
                                ELSE Absent]
        @@ api_dealer

\* merge_and_segment: the body of the loop for one dealer
segment_dealer(api_dealer, prospect_nos, wc) ==
    LET the_dno     == api_dealer.dealer_no
        in_wc       == the_dno \in wc
        in_prospect == \E k \in 1..Len(prospect_nos) :
                          prospect_nos[k].dealer_no = the_dno
        pd          == prospect_nos[CHOOSE k \in 1..Len(prospect_nos) :
                                    prospect_nos[k].dealer_no = the_dno]
        the_segment == IF in_wc THEN "current_turnkey"
                       ELSE IF in_prospect /\ api_dealer.status = "A"
                            THEN "past_turnkey_active"
                       ELSE IF in_prospect THEN "past_turnkey_inactive"
                       ELSE IF api_dealer.status = "A" THEN "active_prospect"
                       ELSE IF api_dealer.status = "D" THEN "deactivated"
                       ELSE "other"
    IN  [allied_segment |-> the_segment,
         is_current_turnkey |-> in_wc,
         was_turnkey_ever |-> in_wc \/ in_prospect,
         is_active_dealer |-> api_dealer.status = "A",
         suppress_from_outreach |-> in_wc,
         prospect_score |-> IF in_prospect THEN GetNum(pd, "prospect_score") ELSE Absent,
         prospect_tier |-> IF in_prospect THEN Get(pd, "prospect_tier") ELSE None,
         experience_level |-> IF in_prospect THEN Get(pd, "experience_level") ELSE None,
         page_status |-> IF in_prospect THEN Get(pd, "page_status") ELSE None,
         ever_had_fb_admin |-> IF in_prospect THEN GetOrFalse(pd, "ever_had_fb_admin")
                               ELSE FALSE,
         targetable |-> IF in_prospect THEN GetOrFalse(pd, "targetable") ELSE FALSE,
         sprout_engagement_rate |-> IF in_prospect THEN GetNum(pd, "engagement_rate")
                                    ELSE Absent,
         sprout_followers |-> IF in_prospect THEN GetNum(pd, "sprout_followers")
                              ELSE Absent,
         sprout_total_posts |-> IF in_prospect THEN GetNum(pd, "sprout_total_posts")
                                ELSE Absent]
        @@ api_dealer

\* what a run of main leaves alone
OutsideMain == <<vars, call, load, scoring, extra>>
OutsideMainAtRest ==
    MatcherAtRest /\ CallAtRest /\ LoadAtRest /\ ScoringAtRest /\ ExtraAtRest

MainInit ==
    /\ script \in Scripts
    /\ present \in SUBSET Files(script)
    /\ mpc = IF script = "build-prospect-data" THEN "check" ELSE "load_api_csv"
    /\ log = <<>>
    /\ records = <<>>
    /\ prospect_data = <<>>
    /\ wc_dealer_nos = {}
    /\ output = <<>>
    /\ OutsideMainAtRest

\* build-prospect-data.py, main: the Excel file is not found
main_exit ==
    /\ script = "build-prospect-data" /\ mpc = "check"
    /\ "EXCEL_PATH" \notin present
    /\ log' = Append(log, Line("ERROR", "EXCEL_PATH"))
    /\ mpc' = "exit"
    /\ UNCHANGED <<script, present, records, prospect_data, wc_dealer_nos, output,
                   OutsideMain>>

main_load_excel ==
    /\ script = "build-prospect-data" /\ mpc = "check"
    /\ "EXCEL_PATH" \in present
    /\ records' = ExcelDealers
    /\ mpc' = "load_post_performance"
    /\ UNCHANGED <<script, present, log, prospect_data, wc_dealer_nos, output,
                   OutsideMain>>

main_load_post_performance ==
    /\ script = "build-prospect-data" /\ mpc = "load_post_performance"
    /\ records' = load_post_performance(records, present)
    /\ log' = log \o [k \in 1..Len(SelectSeq(POST_PERFORMANCE_FILES,
                                             LAMBDA f : f \notin present)) |->
                        Line("WARNING", SelectSeq(POST_PERFORMANCE_FILES,
                                                  LAMBDA f : f \notin present)[k])]
    /\ mpc' = "load_facebook_pages"
    /\ UNCHANGED <<script, present, prospect_data, wc_dealer_nos, output,
                   OutsideMain>>

\* the WARNING of a loader whose file is not found
Warned(file) == IF file \in present THEN log ELSE Append(log, Line("WARNING", file))

main_load_facebook_pages ==
    /\ script = "build-prospect-data" /\ mpc = "load_facebook_pages"
    /\ records' = load_facebook_pages(records, present)
    /\ log' = Warned("FACEBOOK_PAGES_PATH")
    /\ mpc' = "load_profile_performance"
    /\ UNCHANGED <<script, present, prospect_data, wc_dealer_nos, output,
                   OutsideMain>>

main_load_profile_performance ==
    /\ script = "build-prospect-data" /\ mpc = "load_profile_performance"
    /\ records' = load_profile_performance(records, present)
    /\ log' = Warned("PROFILE_PERF_PATH")
    /\ mpc' = "enrich_from_api"
    /\ UNCHANGED <<script, present, prospect_data, wc_dealer_nos, output,
                   OutsideMain>>

main_enrich_from_api ==
    /\ script = "build-prospect-data" /\ mpc = "enrich_from_api"
    /\ records' = enrich_from_api(records, present)
    /\ log' = Warned("ALLIED_API_CSV")
    /\ mpc' = "compute_scores"
    /\ UNCHANGED <<script, present, prospect_data, wc_dealer_nos, output,
                   OutsideMain>>

main_compute_scores ==
    /\ script = "build-prospect-data" /\ mpc = "compute_scores"
    /\ records' = [k \in 1..Len(records) |-> compute_scores(records[k])]
    /\ mpc' = "write"
    /\ UNCHANGED <<script, present, log, prospect_data, wc_dealer_nos, output,
                   OutsideMain>>

\* main: json.dump(output, f) into OUTPUT_PATH
main_write ==
    /\ script = "build-prospect-data" /\ mpc = "write"
    /\ output' = <<records>>
    /\ mpc' = "done"
    /\ UNCHANGED <<script, present, log, records, prospect_data, wc_dealer_nos,
                   OutsideMain>>

\* build-pe-allied-dealers.py, load_api_csv: the file is not found
pe_exit ==
    /\ script = "build-pe-allied-dealers" /\ mpc = "load_api_csv"
    /\ "ALLIED_API_CSV" \notin present
    /\ log' = Append(log, Line("ERROR", "ALLIED_API_CSV"))
    /\ mpc' = "exit"
    /\ UNCHANGED <<script, present, records, prospect_data, wc_dealer_nos, output,
                   OutsideMain>>

pe_load_api_csv ==
    /\ script = "build-pe-allied-dealers" /\ mpc = "load_api_csv"
    /\ "ALLIED_API_CSV" \in present
    /\ records' = ApiDealers
    /\ mpc' = "load_prospect_dealers"
    /\ UNCHANGED <<script, present, log, prospect_data, wc_dealer_nos, output,
                   OutsideMain>>

pe_load_prospect_dealers ==
    /\ script = "build-pe-allied-dealers" /\ mpc = "load_prospect_dealers"
    /\ prospect_data' = load_prospect_dealers(present)
    /\ log' = Warned("PROSPECT_DEALERS_JSON")
    /\ mpc' = "load_wc_dealer_nos"
    /\ UNCHANGED <<script, present, records, wc_dealer_nos, output, OutsideMain>>

pe_load_wc_dealer_nos ==
    /\ script = "build-pe-allied-dealers" /\ mpc = "load_wc_dealer_nos"
    /\ wc_dealer_nos' = load_wc_dealer_nos(present)
    /\ log' = Warned("WC_DEALER_NOS_JSON")
    /\ mpc' = "merge_and_segment"
    /\ UNCHANGED <<script, present, records, prospect_data, output, OutsideMain>>

pe_merge_and_segment ==
    /\ script = "build-pe-allied-dealers" /\ mpc = "merge_and_segment"
    /\ records' = [k \in 1..Len(records) |->
                     segment_dealer(records[k], prospect_data, wc_dealer_nos)]
    /\ mpc' = "write_output"
    /\ UNCHANGED <<script, present, log, prospect_data, wc_dealer_nos, output,
                   OutsideMain>>

\* write_output: json.dump(dealers, f) into OUTPUT_PATH
pe_write_output ==
    /\ script = "build-pe-allied-dealers" /\ mpc = "write_output"
    /\ output' = <<records>>
    /\ mpc' = "done"
    /\ UNCHANGED <<script, present, log, records, prospect_data, wc_dealer_nos,
                   OutsideMain>>

MainNext ==
    \/ main_exit
    \/ main_load_excel
    \/ main_load_post_performance
    \/ main_load_facebook_pages
    \/ main_load_profile_performance
    \/ main_enrich_from_api
    \/ main_compute_scores
    \/ main_write
    \/ pe_exit
    \/ pe_load_api_csv
    \/ pe_load_prospect_dealers
    \/ pe_load_wc_dealer_nos
    \/ pe_merge_and_segment
    \/ pe_write_output

\* the steps of main
Stages ==
    {"check", "load_post_performance", "load_facebook_pages",
     "load_profile_performance", "enrich_from_api", "compute_scores", "write",
     "load_api_csv", "load_prospect_dealers", "load_wc_dealer_nos",
     "merge_and_segment", "write_output", "done", "exit"}

\* the interpreter goes on to the next step of a script that has neither
\* returned nor exited
Advance ==
    /\ mpc \notin {"done", "exit", "rest"}
    /\ \E m \in Stages \ {mpc} : mpc' = m

\* a script runs its statements one after the other until it returns or exits
MainSpec == MainInit /\ [][MainNext]_everything /\ WF_mpc(Advance)

----------------------------------------------------------------------------
(* The build scripts against the specification *)

\* the file a script cannot run without
Primary(s) == IF s = "build-prospect-data" THEN "EXCEL_PATH" ELSE "ALLIED_API_CSV"

PrimaryPresent == Primary(script) \in present
Written == output /= <<>>
Aborted == mpc = "exit"
Completed == mpc = "done" /\ Written

Reported(level, file) == \E k \in 1..Len(log) : log[k] = Line(level, file)

\* the entities of the output file
Entity(k) == output[1][k]
EntityNos == IF Written THEN 1..Len(output[1]) ELSE {}

Tagged(d, tag) == \E k \in 1..Len(d.data_sources) : d.data_sources[k] = tag

\* the fields each source of build-prospect-data.py fills
PostFields ==
    {"sprout_total_posts", "sprout_last_post_date", "sprout_avg_impressions",
     "sprout_avg_engagements", "sprout_engagement_rate", "sprout_total_engagements"}
PageFields ==
    {"sprout_followers", "sprout_follower_growth", "sprout_page_actions",
     "sprout_total_reach"}
ProfileFields == {"sprout_received_pms", "sprout_sent_pms"}
ApiFields == {"api_street", "api_postal_code", "api_brands", "api_dealer_website"}

\* the posts of the files that exist
PostsFound ==
    UNION {{PostRows[f][k] : k \in 1..Len(PostRows[f])} :
             f \in present \cap DOMAIN PostRows}

\* the row of the workbook an entity comes from
ExcelRowOf(d) == ExcelDealers[CHOOSE k \in 1..Len(ExcelDealers) :
                                 ExcelDealers[k].dealer_no = d.dealer_no]

\* nothing of the posts of a file that is not found is in the entity d
NoPostOfAbsent(d) ==
    /\ PostsFound = {} =>
          /\ DOMAIN d \cap PostFields = {}
          /\ ~Tagged(d, "sprout_posts")
          /\ d.page_status = None
          /\ d.avg_posts_last_3mo = Absent
          /\ d.last_post_date = Absent
    /\ "sprout_total_posts" \in DOMAIN d =>
          /\ d.sprout_total_posts[1] <= Cardinality({p.post_id : p \in PostsFound})
          /\ \E p \in PostsFound : d.sprout_last_post_date = Some(p.day)

NoFieldOfAbsentProspectSource(d) ==
    /\ NoPostOfAbsent(d)
    /\ "FACEBOOK_PAGES_PATH" \notin present =>
          DOMAIN d \cap PageFields = {} /\ ~Tagged(d, "sprout_pages")
    /\ "PROFILE_PERF_PATH" \notin present =>
          DOMAIN d \cap ProfileFields = {} /\ ~Tagged(d, "sprout_profile")
    /\ "ALLIED_API_CSV" \notin present =>
          /\ DOMAIN d \cap ApiFields = {}
          /\ ~Tagged(d, "allied_api")
          /\ d.dealer_web_address = ExcelRowOf(d).dealer_web_address

NoFieldOfAbsentAlliedSource(d) ==
    /\ "PROSPECT_DEALERS_JSON" \notin present =>
          /\ d.prospect_score = Absent /\ d.prospect_tier = None
          /\ d.experience_level = None /\ d.page_status = None
          /\ ~d.ever_had_fb_admin /\ ~d.targetable
          /\ d.sprout_engagement_rate = Absent /\ d.sprout_followers = Absent
          /\ d.sprout_total_posts = Absent
          /\ d.allied_segment \notin {"past_turnkey_active", "past_turnkey_inactive"}
    /\ "WC_DEALER_NOS_JSON" \notin present =>
          /\ ~d.is_current_turnkey /\ ~d.suppress_from_outreach
          /\ d.allied_segment /= "current_turnkey"
    /\ {"PROSPECT_DEALERS_JSON", "WC_DEALER_NOS_JSON"} \cap present = {} =>
          ~d.was_turnkey_ever

AbsenceHandled ==
    /\ Aborted => ~PrimaryPresent /\ Reported("ERROR", Primary(script))
    /\ ~PrimaryPresent => ~Written
    /\ \A k \in EntityNos :
          IF script = "build-prospect-data"
          THEN NoFieldOfAbsentProspectSource(Entity(k))
          ELSE NoFieldOfAbsentAlliedSource(Entity(k))

\* C17: without its primary source file a run reports an error and exits, and
\* no output is ever written; with it the run goes on to write its output and
\* return whatever other files are not found, and no entity of the output
\* carries a field, a tag or a segment that comes from a file that is not found
MissingSources ==
    /\ []AbsenceHandled
    /\ (~PrimaryPresent) ~> Aborted
    /\ PrimaryPresent ~> Completed

\* build-prospect-data.py has written its dealers with only the workbook found
MissingSourcesWitness ==
    /\ script = "build-prospect-data"
    /\ Completed
    /\ present = {"EXCEL_PATH"}
    /\ Len(output[1]) = Len(ExcelDealers)
    /\ \A f \in Files(script) \ present : Reported("WARNING", f)

----------------------------------------------------------------------------
(* compute_scores called again on the dealers it has scored *)

\* compute_scores(dealers) on the dict that compute_scores returned
compute_scores_again ==
    /\ spc = "scored"
    /\ entity' = compute_scores(entity)
    /\ spc' = "rescored"
    /\ UNCHANGED OutsideScoring

RescoreNext ==
    \/ load_post_performance_dealer
    \/ load_post_performance_skip
    \/ compute_scores_dealer
    \/ compute_scores_again

RescoreSpec == ScoringInit /\ [][RescoreNext]_everything

\* C21: the second application of compute_scores to a scored dealer leaves
\* its page status, its score and its tier as the first application set them
RescoreIdempotent ==
    [][spc = "scored" /\ spc' = "rescored" =>
          /\ entity'.page_status = entity.page_status
          /\ entity'.prospect_score = entity.prospect_score
          /\ entity'.prospect_tier = entity.prospect_tier]_everything

----------------------------------------------------------------------------
(* The enrichment loaders of build-prospect-data.py, one pass of their      *)
(* loops at a time.  The rows a loop meets are drawn from small catalogues; *)
(* a groupby loop meets each key once, a loop over rows may meet a dealer   *)
(* any number of times.                                                     *)

\* groups of posts of a dealer: their dates and totals
PostGroups ==
    {[posts |-> (30 :> 2), engagements |-> 5, impressions |-> 25],
     [posts |-> (181 :> 1), engagements |-> 0, impressions |-> 0]}

\* groups of the Facebook Pages file; "acme" and "acme " are two groups
PageGroups ==
    {[page |-> "acme", Followers |-> Some(300), growth |-> Some(5),
      actions |-> Some(2), reach |-> Some(1000)],
     [page |-> "acme ", Followers |-> Some(10), growth |-> Absent,
      actions |-> Some(0), reach |-> Some(0)],
     [page |-> "other", Followers |-> Some(7), growth |-> Some(1),
      actions |-> Some(1), reach |-> Some(1)]}

\* groups of the Profile Performance file
ProfileGroups ==
    {[Profile |-> "beta", received |-> Some(26), sent |-> Some(3)],
     [Profile |-> "\tbeta", received |-> Some(1), sent |-> Some(0)]}

\* rows of the API CSV
ApiCatalogue ==
    {[dealer_no |-> StrCell("100"), street |-> StrCell("1 Main St"),
      postal_code |-> StrCell("30301"), brands |-> NaN,
      dealer_website |-> StrCell("first.example")],
     [dealer_no |-> StrCell("100"), street |-> StrCell("9 Other Rd"),
      postal_code |-> NaN, brands |-> NaN,
      dealer_website |-> StrCell("second.example")],
     [dealer_no |-> StrCell("200"), street |-> NaN, postal_code |-> NaN,
      brands |-> StrCell("ARM"), dealer_website |-> StrCell("other.example")],
     [dealer_no |-> StrCell("400"), street |-> StrCell("2 Side St"),
      postal_code |-> NaN, brands |-> NaN, dealer_website |-> NaN]}

\* dealers with the record of the dealer the_dno replaced by rec
Updated(ds, the_dno, rec) ==
    [k \in 1..Len(ds) |-> IF ds[k].dealer_no = the_dno THEN rec ELSE ds[k]]

RecordOf(ds, the_dno) ==
    ds[CHOOSE k \in 1..Len(ds) : ds[k].dealer_no = the_dno]

OutsideEnrich == <<vars, call, load, scoring, pipeline, pds, render>>
OutsideEnrichAtRest ==
    /\ MatcherAtRest /\ CallAtRest /\ LoadAtRest /\ ScoringAtRest /\ PipelineAtRest
    /\ PdsAtRest /\ RenderAtRest

EnrichInit ==
    /\ enriching = ExcelDealers
    /\ epc = "load_post_performance"
    /\ grouped = {}
    /\ OutsideEnrichAtRest

\* load_post_performance: the body of the loop over matched.groupby
load_post_performance_group ==
    /\ epc = "load_post_performance"
    /\ \E k \in 1..Len(enriching) : \E g \in PostGroups :
          LET d == enriching[k]
          IN  /\ Truthy(d.facebook_page_name)
              /\ fb_to_dealer(enriching, d.facebook_page_name) = d.dealer_no
              /\ d.dealer_no \notin grouped
              /\ enriching' =
                   Updated(enriching, d.dealer_no,
                           with_source(post_stats(g.posts, g.engagements,
                                                  g.impressions) @@ d,
                                       "sprout_posts"))
              /\ grouped' = grouped \cup {d.dealer_no}
    /\ UNCHANGED <<epc, OutsideEnrich>>

load_post_performance_return ==
    /\ epc = "load_post_performance"
    /\ epc' = "load_facebook_pages"
    /\ grouped' = {}
    /\ UNCHANGED <<enriching, OutsideEnrich>>

\* load_facebook_pages: the body of the loop over df.groupby
load_facebook_pages_group ==
    /\ epc = "load_facebook_pages"
    /\ \E g \in PageGroups :
          LET the_dno == fb_to_dealer(enriching, page_name(g.page))
          IN  /\ g.page \notin grouped
              /\ grouped' = grouped \cup {g.page}
              /\ enriching' =
                   IF ~Truthy(the_dno) THEN enriching
                   ELSE Updated(enriching, the_dno,
                          with_source(
                            [sprout_followers |-> g.Followers,
                             sprout_follower_growth |-> g.growth,
                             sprout_page_actions |-> g.actions,
                             sprout_total_reach |-> g.reach]
                            @@ RecordOf(enriching, the_dno),
                            "sprout_pages"))
    /\ UNCHANGED <<epc, OutsideEnrich>>

load_facebook_pages_return ==
    /\ epc = "load_facebook_pages"
    /\ epc' = "load_profile_performance"
    /\ grouped' = {}
    /\ UNCHANGED <<enriching, OutsideEnrich>>

\* load_profile_performance: the body of the loop over df.groupby
load_profile_performance_group ==
    /\ epc = "load_profile_performance"
    /\ \E g \in ProfileGroups :
          LET the_dno == fb_to_dealer(enriching, page_name(g.Profile))
          IN  /\ g.Profile \notin grouped
              /\ grouped' = grouped \cup {g.Profile}
              /\ enriching' =
                   IF ~Truthy(the_dno) THEN enriching
                   ELSE Updated(enriching, the_dno,
                          with_source(
                            [sprout_received_pms |-> g.received,
                             sprout_sent_pms |-> g.sent]
                            @@ RecordOf(enriching, the_dno),
                            "sprout_profile"))
    /\ UNCHANGED <<epc, OutsideEnrich>>

load_profile_performance_return ==
    /\ epc = "load_profile_performance"
    /\ epc' = "enrich_from_api"
    /\ grouped' = {}
    /\ UNCHANGED <<enriching, OutsideEnrich>>

\* enrich_from_api: the body of the loop over api.iterrows
enrich_from_api_row ==
    /\ epc = "enrich_from_api"
    /\ \E row \in ApiCatalogue : enriching' = enrich_rows(enriching, <<row>>)
    /\ UNCHANGED <<epc, grouped, OutsideEnrich>>

enrich_from_api_return ==
    /\ epc = "enrich_from_api"
    /\ epc' = "compute_scores"
    /\ UNCHANGED <<enriching, grouped, OutsideEnrich>>

EnrichNext ==
    \/ load_post_performance_group
    \/ load_post_performance_return
    \/ load_facebook_pages_group
    \/ load_facebook_pages_return
    \/ load_profile_performance_group
    \/ load_profile_performance_return
    \/ enrich_from_api_row
    \/ enrich_from_api_return

EnrichSpec == EnrichInit /\ [][EnrichNext]_everything

----------------------------------------------------------------------------
(* The enrichment loops against the specification *)

\* the fields that hold a number or None, a bool, a list
NumberFields ==
    {"posting_days", "enrollment_days", "sprout_total_posts",
     "sprout_last_post_date", "sprout_engagement_rate",
     "_avg_posts_last_3mo_sprout", "_last_post_sprout", "sprout_followers",
     "sprout_follower_growth", "sprout_page_actions", "sprout_total_reach",
     "sprout_received_pms", "sprout_sent_pms"}
BoolFields == {"is_opt_out"}
ListFields == {"data_sources"}

\* the field f of d holds a value: it is there and is not None or ""
Filled(d, f) ==
    /\ f \in DOMAIN d
    /\ IF f \in NumberFields THEN d[f] /= Absent
       ELSE IF f \in BoolFields \cup ListFields THEN TRUE
       ELSE Truthy(d[f])

IsPrefix(a, b) == Len(a) <= Len(b) /\ SubSeq(b, 1, Len(a)) = a

\* from d to e a field is only filled: what held a value holds it still
\* (the list of sources may grow), and what did not is empty or filled
FilledOnly(d, e) ==
    /\ DOMAIN d \subseteq DOMAIN e
    /\ \A f \in DOMAIN d :
          Filled(d, f) =>
             IF f \in ListFields THEN IsPrefix(d[f], e[f]) ELSE e[f] = d[f]

\* C22: a pass of an enrichment loop removes no dealer and changes no field
\* of a dealer that holds a value; it only fills fields that were empty
FillGapsOnly ==
    [][/\ Len(enriching') = Len(enriching)
       /\ \A k \in 1..Len(enriching) :
             /\ enriching'[k].dealer_no = enriching[k].dealer_no
             /\ FilledOnly(enriching[k], enriching'[k])]_everything

----------------------------------------------------------------------------
(* run_matching over dealers of which some lack the dealer_no key: the      *)
(* subscript dealer["dealer_no"], the first statement of the loop body,     *)
(* raises KeyError, which neither run_matching nor main catches.            *)

RaisingInit ==
    /\ \E n \in 0..MaxPool : \E rows \in [1..n -> ProspectRows] :
          prospects = [k \in 1..n |-> rows[k] @@ [id |-> PoolId(k)]]
    /\ \E n \in 0..MaxAllied : \E rows \in [1..n -> DealerRows] :
       \E keyless \in SUBSET (1..n) :
          allied = [k \in 1..n |->
                      IF k \in keyless THEN rows[k]
                      ELSE rows[k] @@ [dealer_no |-> DealerNo(k)]]
    /\ phone_index = EmptyIndex
    /\ email_index = EmptyIndex
    /\ domain_index = EmptyIndex
    /\ name_city_state_index = EmptyIndex
    /\ skipped_allied = 0
    /\ high_confidence = <<>>
    /\ fuzzy_matches = <<>>
    /\ ambiguous = <<>>
    /\ stats = [k \in StatKeys |-> 0]
    /\ already_matched_prospects = {}
    /\ pc = "build"
    /\ j = 1
    /\ i = 1
    /\ OutsideMatcherAtRest

\* dealer["dealer_no"] finds the key
HasDealerNo == pc = "phone" => "dealer_no" \in DOMAIN allied[i]

\* dno = dealer["dealer_no"] raises KeyError, which ends the script
RaiseKeyError ==
    /\ pc = "phone"
    /\ "dealer_no" \notin DOMAIN allied[i]
    /\ pc' = "raised"
    /\ UNCHANGED <<inputs, indexes, skipped_allied, outputs,
                   already_matched_prospects, j, i, OutsideMatcher>>

RaisingNext ==
    \/ HasDealerNo /\ Next
    \/ RaiseKeyError

RaisingSpec == RaisingInit /\ [][RaisingNext]_everything

\* C23: the run ends only with its summary, after the loop has passed every
\* dealer: a dealer whose processing raised is left out and the dealers
\* after it are processed
ExceptionContained ==
    pc \in {"done", "raised"} =>
       /\ pc = "done"
       /\ \A k \in 1..Len(allied) : "dealer_no" \in DOMAIN allied[k] => k < i

----------------------------------------------------------------------------
(* merge_and_segment against the specification *)

Segments ==
    {"current_turnkey", "past_turnkey_active", "past_turnkey_inactive",
     "active_prospect", "deactivated", "other"}

\* the dealers of build-pe-allied-dealers.py carry their segments
Segmented == script = "build-pe-allied-dealers" /\ mpc \in {"write_output", "done"}

OnSuppressionList(d) == d.dealer_no \in wc_dealer_nos
InProspectData(d) ==
    \E k \in 1..Len(prospect_data) : prospect_data[k].dealer_no = d.dealer_no

\* the segment the precedence gives a dealer
SegmentByPrecedence(d) ==
    CASE OnSuppressionList(d) -> "current_turnkey"
      [] ~OnSuppressionList(d) /\ InProspectData(d) /\ d.status = "A" ->
            "past_turnkey_active"
      [] ~OnSuppressionList(d) /\ InProspectData(d) /\ d.status /= "A" ->
            "past_turnkey_inactive"
      [] ~OnSuppressionList(d) /\ ~InProspectData(d) /\ d.status = "A" ->
            "active_prospect"
      [] ~OnSuppressionList(d) /\ ~InProspectData(d) /\ d.status = "D" ->
            "deactivated"
      [] OTHER -> "other"

\* C24: after merge_and_segment every dealer has the one segment the
\* precedence gives it, is suppressed exactly when that is current_turnkey,
\* and was ever turnkey exactly when it is one of the three turnkey segments
SegmentsByPrecedence ==
    Segmented =>
       \A k \in 1..Len(records) :
          LET d == records[k]
          IN  /\ d.allied_segment \in Segments
              /\ d.allied_segment = SegmentByPrecedence(d)
              /\ d.suppress_from_outreach = (d.allied_segment = "current_turnkey")
              /\ d.is_current_turnkey = (d.allied_segment = "current_turnkey")
              /\ d.was_turnkey_ever =
                    (d.allied_segment \in {"current_turnkey", "past_turnkey_active",
                                           "past_turnkey_inactive"})

\* the dealers are segmented with both lists found, and all six segments occur
SegmentsByPrecedenceWitness ==
    /\ Segmented
    /\ wc_dealer_nos /= {}
    /\ prospect_data /= <<>>
    /\ {records[k].allied_segment : k \in 1..Len(records)} = Segments
    /\ \E k \in 1..Len(records) :
          OnSuppressionList(records[k]) /\ InProspectData(records[k])

----------------------------------------------------------------------------
(* The two safe_str helpers called on their own *)

CleanTokens ==
    {"", "NULL", "null", "None", "none", "nan", "NaN", "NaT", "N/A", "A",
     "Acme Co", "0"}
CleanPads == {"", " ", "  ", "\t"}

\* the cells a field of a source row can hold
CleanCells ==
    {StrCell(a \o t \o b) : a \in CleanPads, t \in CleanTokens, b \in CleanPads}
       \cup {NaN, NoneCell}

CleanInit ==
    /\ arg \in CleanCells
    /\ ret = None
    /\ called = ""
    /\ OutsideCallAtRest

CallSafeStr ==
    /\ called = ""
    /\ ret' = safe_str(arg)
    /\ called' = "safe_str"
    /\ UNCHANGED <<arg, OutsideCall>>

CallPeSafeStr ==
    /\ called = ""
    /\ ret' = pe_safe_str(arg)
    /\ called' = "pe_safe_str"
    /\ UNCHANGED <<arg, OutsideCall>>

CleanNext == CallSafeStr \/ CallPeSafeStr

CleanSpec == CleanInit /\ [][CleanNext]_everything

\* the tokens the field cleaning contract names, a whitespace-only string
\* being "" once trimmed
NullLikeTokens == {"", "NULL", "none", "nan", "NaT"}

\* C25: each safe_str gives the empty value for "", a whitespace-only string,
\* "NULL", "none", "nan" and "NaT", and any other string trimmed
CleanedAsSpecified ==
    (called \in {"safe_str", "pe_safe_str"} /\ arg.type = "str") =>
       ret = IF strip(str(arg)) \in NullLikeTokens THEN None ELSE strip(str(arg))

----------------------------------------------------------------------------
(* process_done_status.py: process_done_status run after run.               *)
(*                                                                          *)
(* The spreadsheet is the sequence of its dealer columns, from column G on: *)
(* the cell of row 1 and the cell of row 2.  The dealers table is a         *)
(* function of dealer_no.  A timestamp is "T" and the number of the run.    *)

MaxRuns == 3

COL_DEALERS_START == 6

BLOCKED_DEALER_NOS == {"10491009"}

\* is_dealer_blocked
is_dealer_blocked(the_dno) == the_dno \in BLOCKED_DEALER_NOS

\* the dealer columns of the spreadsheet, row 1
SheetDealers == <<"101", " 102.0", "10491009", "999">>
\* what a status cell holds when the run finds it
SheetStatuses == {"Done", " done ", "Pending"}

\* the dealers of the table
DbDealers == {"101", "102", "10491009"}

\* str(int(float(s))) for a decimal numeral without exponent; s itself when
\* float(s) raises
int_float(s) ==
    LET dot == FirstOf(s, ".")
    IN  IF /\ dot > 1
           /\ \A k \in 1..Len(s) : k /= dot => Ch(s, k) \in DigitSet
        THEN SubSeq(s, 1, dot - 1)
        ELSE s

\* the dealer number of a cell of row 1
cell_dealer_no(text) ==
    LET s == strip(text)
    IN  IF InStr(".", s) \/ InStr("E", upper(s)) THEN int_float(s) ELSE s

\* the columns with "Done" status, in the order of the columns
RECURSIVE find_done_dealers(_, _)
find_done_dealers(sh, k) ==
    IF k > Len(sh) THEN <<>>
    ELSE IF lower(strip(sh[k].status)) = "done"
         THEN <<[dealer_no |-> cell_dealer_no(sh[k].dealer_no),
                 col_idx |-> COL_DEALERS_START + k - 1]>>
                 \o find_done_dealers(sh, k + 1)
         ELSE find_done_dealers(sh, k + 1)

\* get_dealer_email_history: the row of the dealer, or nothing
get_dealer_email_history(table, the_dno) ==
    IF the_dno \in DOMAIN table THEN Some(table[the_dno]) ELSE Absent

\* datetime.now().isoformat() during run r
now(r) == "T" \o ToString(r)

\* faulty variant of update_dealer_email_history: only the last send is kept
update_dealer_email_history_last_only(table, the_dno, email_type, at) ==
    IF the_dno \notin DOMAIN table THEN table
    ELSE [table EXCEPT ![the_dno].last_post_email_sent = at]

\* update_dealer_email_history on the table
update_dealer_email_history(table, the_dno, email_type, at) ==
    IF the_dno \notin DOMAIN table THEN table
    ELSE IF email_type = "first_post"
         THEN [table EXCEPT ![the_dno].first_post_email_sent = at,
                            ![the_dno].last_post_email_sent = at]
         ELSE [table EXCEPT ![the_dno].last_post_email_sent = at]

\* the email type process_done_status chooses from the history
email_type_of(history) ==
    IF Truthy(history.first_post_email_sent) THEN "post_scheduled" ELSE "first_post"

\* what a call of an email function can give: a blocked dealer is refused,
\* any other send succeeds, fails or raises
Outcomes(the_dno) ==
    IF is_dealer_blocked(the_dno) THEN {"failed"} ELSE {"success", "failed", "raised"}

EmptyResult == [processed |-> <<>>, errors |-> <<>>, skipped |-> <<>>]

\* what process_done_status leaves alone
OutsidePds == <<vars, call, load, scoring, pipeline, enrich, render>>
OutsidePdsAtRest ==
    /\ MatcherAtRest /\ CallAtRest /\ LoadAtRest /\ ScoringAtRest /\ PipelineAtRest
    /\ EnrichAtRest /\ RenderAtRest

\* the rows of the table before the first run: some dealers have had their
\* first_post email
DbRows ==
    { t \in [DbDealers -> [first_post_email_sent : {None, "", "T0"},
                           last_post_email_sent : {None, "T0"}]] :
        /\ t["101"].first_post_email_sent \in {None, ""}
        /\ t["102"].first_post_email_sent \in {None, "T0"}
        /\ t["10491009"].first_post_email_sent = None
        /\ \A k \in DbDealers :
              t[k].last_post_email_sent =
                 (IF Truthy(t[k].first_post_email_sent) THEN "T0" ELSE None) }

PdsInit ==
    /\ \E st \in [1..Len(SheetDealers) -> SheetStatuses] :
          /\ \A k \in 3..Len(SheetDealers) : st[k] \in {"Done", "Pending"}
          /\ sheet = [k \in 1..Len(SheetDealers) |->
                         [dealer_no |-> SheetDealers[k], status |-> st[k]]]
    /\ db \in DbRows
    /\ dry_run = FALSE
    /\ done_dealers = <<>>
    /\ didx = 1
    /\ updates = <<>>
    /\ result = EmptyResult
    /\ sends = <<>>
    /\ ppc = "idle"
    /\ runs = 0
    /\ OutsidePdsAtRest

\* the cells of row 2 after the batch update of the queued ranges
batch_update(sh, queued) ==
    [k \in 1..Len(sh) |->
        IF \E u \in 1..Len(queued) : queued[u].col_idx = COL_DEALERS_START + k - 1
        THEN [sh[k] EXCEPT !.status = "Email Sent"]
        ELSE sh[k]]

\* process_done_status(dr) up to its loop: the sheet is read, the Done
\* columns are found; with none the function returns
pds_start(dr) ==
    /\ ppc = "idle"
    /\ runs < MaxRuns
    /\ runs' = runs + 1
    /\ dry_run' = dr
    /\ result' = EmptyResult
    /\ updates' = <<>>
    /\ done_dealers' = find_done_dealers(sheet, 1)
    /\ didx' = 1
    /\ ppc' = IF done_dealers' = <<>> THEN "idle" ELSE "loop"
    /\ UNCHANGED <<sheet, db, sends, OutsidePds>>

\* the dealer of the loop
TheDealer == done_dealers[didx]
InLoop == ppc = "loop" /\ didx <= Len(done_dealers)

\* the dealer is not in the table: skipped
pds_skip ==
    /\ InLoop
    /\ get_dealer_email_history(db, TheDealer.dealer_no) = Absent
    /\ result' = [result EXCEPT !.skipped =
                     Append(@, [dealer_no |-> TheDealer.dealer_no,
                                reason |-> "Not found in database"])]
    /\ didx' = didx + 1
    /\ UNCHANGED <<sheet, db, dry_run, done_dealers, updates, sends, ppc, runs,
                   OutsidePds>>

\* faulty variant of pds_dry_run: the history is written in a dry run too
pds_dry_run_writes ==
    /\ InLoop
    /\ dry_run
    /\ get_dealer_email_history(db, TheDealer.dealer_no) /= Absent
    /\ LET email_type == email_type_of(get_dealer_email_history(db, TheDealer.dealer_no)[1])
       IN  /\ result' = [result EXCEPT !.processed =
                            Append(@, [dealer_no |-> TheDealer.dealer_no,
                                       email_type |-> email_type,
                                       dry_run |-> TRUE])]
           /\ db' = update_dealer_email_history(db, TheDealer.dealer_no,
                                                email_type, now(runs))
    /\ didx' = didx + 1
    /\ UNCHANGED <<sheet, dry_run, done_dealers, updates, sends, ppc, runs,
                   OutsidePds>>

\* a dry run reports the email type and goes on
pds_dry_run ==
    /\ InLoop
    /\ dry_run
    /\ get_dealer_email_history(db, TheDealer.dealer_no) /= Absent
    /\ LET email_type == email_type_of(get_dealer_email_history(db, TheDealer.dealer_no)[1])
       IN  result' = [result EXCEPT !.processed =
                         Append(@, [dealer_no |-> TheDealer.dealer_no,
                                    email_type |-> email_type,
                                    dry_run |-> TRUE])]
    /\ didx' = didx + 1
    /\ UNCHANGED <<sheet, db, dry_run, done_dealers, updates, sends, ppc, runs,
                   OutsidePds>>

\* faulty variant of pds_send: the cell is queued whatever the send gave
pds_send_queues_always(outcome) ==
    /\ InLoop
    /\ ~dry_run
    /\ get_dealer_email_history(db, TheDealer.dealer_no) /= Absent
    /\ outcome \in Outcomes(TheDealer.dealer_no)
    /\ LET the_dno == TheDealer.dealer_no
           email_type == email_type_of(get_dealer_email_history(db, the_dno)[1])
       IN  /\ sends' = Append(sends, [dealer_no |-> the_dno,
                                      email_type |-> email_type,
                                      outcome |-> outcome, run |-> runs])
           /\ updates' = Append(updates, [col_idx |-> TheDealer.col_idx])
           /\ IF outcome = "success"
              THEN /\ db' = update_dealer_email_history(db, the_dno, email_type,
                                                        now(runs))
                   /\ result' = [result EXCEPT !.processed =
                                    Append(@, [dealer_no |-> the_dno,
                                               email_type |-> email_type,
                                               success |-> TRUE])]
              ELSE /\ result' = [result EXCEPT !.errors =
                                    Append(@, [dealer_no |-> the_dno,
                                               error |-> outcome])]
                   /\ UNCHANGED db
    /\ didx' = didx + 1
    /\ UNCHANGED <<sheet, dry_run, done_dealers, ppc, runs, OutsidePds>>

\* the email function is called; on success the history is updated, the cell
\* queued and the dealer processed; a failure and an exception are errors
pds_send(outcome) ==
    /\ InLoop
    /\ ~dry_run
    /\ get_dealer_email_history(db, TheDealer.dealer_no) /= Absent
    /\ outcome \in Outcomes(TheDealer.dealer_no)
    /\ LET the_dno == TheDealer.dealer_no
           email_type == email_type_of(get_dealer_email_history(db, the_dno)[1])
       IN  /\ sends' = Append(sends, [dealer_no |-> the_dno,
                                      email_type |-> email_type,
                                      outcome |-> outcome, run |-> runs])
           /\ IF outcome = "success"
              THEN /\ db' = update_dealer_email_history(db, the_dno, email_type,
                                                        now(runs))
                   /\ updates' = Append(updates, [col_idx |-> TheDealer.col_idx])
                   /\ result' = [result EXCEPT !.processed =
                                    Append(@, [dealer_no |-> the_dno,
                                               email_type |-> email_type,
                                               success |-> TRUE])]
              ELSE /\ result' = [result EXCEPT !.errors =
                                    Append(@, [dealer_no |-> the_dno,
                                               error |-> outcome])]
                   /\ UNCHANGED <<db, updates>>
    /\ didx' = didx + 1
    /\ UNCHANGED <<sheet, dry_run, done_dealers, ppc, runs, OutsidePds>>

\* after the loop: the queued cells are written in one batch, the summary is
\* printed and the result returned
pds_batch_update ==
    /\ ppc = "loop"
    /\ didx > Len(done_dealers)
    /\ sheet' = IF updates /= <<>> /\ ~dry_run THEN batch_update(sheet, updates)
                ELSE sheet
    /\ ppc' = "idle"
    /\ UNCHANGED <<db, dry_run, done_dealers, didx, updates, result, sends, runs,
                   OutsidePds>>

\* between two runs the operator puts a column in Done status again
operator_marks_done(k) ==
    /\ ppc = "idle"
    /\ runs \in 1..(MaxRuns - 1)
    /\ sheet[k].status = "Email Sent"
    /\ sheet' = [sheet EXCEPT ![k].status = "Done"]
    /\ UNCHANGED <<db, dry_run, done_dealers, didx, updates, result, sends, ppc,
                   runs, OutsidePds>>

PdsNext ==
    \/ \E dr \in BOOLEAN : pds_start(dr)
    \/ pds_skip
    \/ pds_dry_run
    \/ \E outcome \in {"success", "failed", "raised"} : pds_send(outcome)
    \/ pds_batch_update
    \/ \E k \in 1..Len(SheetDealers) : operator_marks_done(k)

PdsSpec == PdsInit /\ [][PdsNext]_everything

----------------------------------------------------------------------------
(* process_done_status against the specification *)

\* a run has returned
Returned == ppc = "idle" /\ runs >= 1

\* a step of a dry run: its start, or a step of its loop and after
DryRunStep == (runs' /= runs /\ dry_run') \/ (ppc = "loop" /\ dry_run)

\* what a returned dry run reports: every Done dealer of the table with the
\* email type its history gives, every other one as skipped, no error
DryRunReport ==
    (Returned /\ dry_run) =>
       /\ result.errors = <<>>
       /\ Len(result.processed) + Len(result.skipped) = Len(done_dealers)
       /\ \A k \in 1..Len(done_dealers) :
             LET the_dno == done_dealers[k].dealer_no
             IN  IF the_dno \in DOMAIN db
                 THEN \E e \in 1..Len(result.processed) :
                         /\ result.processed[e].dealer_no = the_dno
                         /\ result.processed[e].dry_run
                         /\ result.processed[e].email_type =
                               (IF Truthy(db[the_dno].first_post_email_sent)
                                THEN "post_scheduled" ELSE "first_post")
                 ELSE \E e \in 1..Len(result.skipped) :
                         result.skipped[e].dealer_no = the_dno

\* C26: a dry run of process_done_status calls no email function, writes
\* nothing to the dealers table and changes no spreadsheet cell; it reports
\* per Done dealer the email type that would be sent
DryRunOnlyReports ==
    /\ []DryRunReport
    /\ [][DryRunStep => (sends' = sends /\ db' = db /\ sheet' = sheet)]_everything

\* a dry run over Done dealers of both email types and one outside the table
\* has returned
DryRunOnlyReportsWitness ==
    /\ Returned /\ dry_run
    /\ \E e \in 1..Len(result.processed) : result.processed[e].email_type = "first_post"
    /\ \E e \in 1..Len(result.processed) :
          result.processed[e].email_type = "post_scheduled"
    /\ result.skipped /= <<>>
    /\ \E k \in 1..Len(sheet) : lower(strip(sheet[k].status)) = "done"

\* the step is the call of an email function for dealer the_dno, and the
\* call returned success
SentThisStep(the_dno) ==
    /\ Len(sends') = Len(sends) + 1
    /\ sends'[Len(sends')].dealer_no = the_dno
    /\ sends'[Len(sends')].outcome = "success"

\* the last entry of list is about dealer the_dno and was added by the step
AddedTo(before, after, the_dno) ==
    /\ Len(after) = Len(before) + 1
    /\ after[Len(after)].dealer_no = the_dno

\* a step of the loop of a run that is not dry
LoopStep ==
    InLoop /\ ~dry_run =>
       LET the_dno == TheDealer.dealer_no
       IN  IF SentThisStep(the_dno)
           THEN /\ db'[the_dno].last_post_email_sent = now(runs)
                /\ \A o \in DOMAIN db : o /= the_dno => db'[o] = db[o]
                /\ updates' = Append(updates, [col_idx |-> TheDealer.col_idx])
                /\ AddedTo(result.processed, result'.processed, the_dno)
                /\ result'.errors = result.errors
                /\ result'.skipped = result.skipped
           ELSE /\ db' = db
                /\ updates' = updates
                /\ result'.processed = result.processed
                /\ \/ /\ AddedTo(result.errors, result'.errors, the_dno)
                      /\ result'.skipped = result.skipped
                   \/ /\ AddedTo(result.skipped, result'.skipped, the_dno)
                      /\ result'.errors = result.errors
                      /\ the_dno \notin DOMAIN db

\* any other step leaves the table alone and changes a status cell only from
\* Done to Email Sent, for a dealer whose send of this run returned success
OtherStep ==
    ~InLoop =>
       /\ db' = db
       /\ ppc = "loop" =>
            \A k \in 1..Len(sheet) :
               sheet'[k] /= sheet[k] =>
                  /\ lower(strip(sheet[k].status)) = "done"
                  /\ sheet'[k] = [sheet[k] EXCEPT !.status = "Email Sent"]
                  /\ \E e \in 1..Len(sends) :
                        /\ sends[e].run = runs
                        /\ sends[e].outcome = "success"
                        /\ sends[e].dealer_no = cell_dealer_no(sheet[k].dealer_no)

\* C27: the history of a dealer is updated and its status cell queued only
\* in the step whose send returned success; a dealer whose send failed or
\* raised, or who is not in the table, changes neither and is recorded
\* under errors or skipped
UpdateOnlyAfterSuccess == [][LoopStep /\ OtherStep]_everything

\* a run has had a successful, a failed and a raising send and a dealer
\* outside the table, and has written the one cell
UpdateOnlyAfterSuccessWitness ==
    /\ Returned /\ ~dry_run
    /\ \A c \in {"success", "failed", "raised"} :
          \E e \in 1..Len(sends) : sends[e].run = runs /\ sends[e].outcome = c
    /\ result.skipped /= <<>>
    /\ Len(result.errors) >= 2
    /\ \E k \in 1..Len(sheet) : sheet[k].status = "Email Sent"
    /\ \E k \in 1..Len(sheet) : lower(strip(sheet[k].status)) = "done"

\* the sends of first_post that returned success, for dealer the_dno
FirstPostsOf(the_dno) ==
    { e \in 1..Len(sends) :
        /\ sends[e].dealer_no = the_dno
        /\ sends[e].email_type = "first_post"
        /\ sends[e].outcome = "success" }

FirstPostOnce == \A the_dno \in DOMAIN db : Cardinality(FirstPostsOf(the_dno)) <= 1

\* the email type is chosen from first_post_email_sent, a successful
\* first_post sets it, and no step clears it
FirstPostStep ==
    /\ Len(sends') = Len(sends) + 1 =>
          LET e == sends'[Len(sends')]
          IN  /\ e.email_type = "first_post"
                    <=> ~Truthy(db[e.dealer_no].first_post_email_sent)
              /\ e.email_type \in {"first_post", "post_scheduled"}
              /\ (e.outcome = "success" /\ e.email_type = "first_post") =>
                    Truthy(db'[e.dealer_no].first_post_email_sent)
    /\ \A the_dno \in DOMAIN db :
          Truthy(db[the_dno].first_post_email_sent) =>
             db'[the_dno].first_post_email_sent = db[the_dno].first_post_email_sent

----------------------------------------------------------------------------
(* batch_render.py: main, with the render service beside it.                *)
(*                                                                          *)
(* A dealer of the batch is named by its place in dealers; the render of    *)
(* the dealer at place k has the id k.  The service holds a status and a    *)
(* url per render and moves the status on its own.                          *)

MaxPolls == 2

\* the FULL dealers of the table, ordered by display_name; the last one has
\* no phone
FullDealers ==
    <<[dealer_no |-> "201", display_name |-> "Acme", phone |-> "555-0101",
       logo_url |-> "https://l/201"],
      [dealer_no |-> "202", display_name |-> "Best Air", phone |-> "555-0102",
       logo_url |-> "https://l/202"],
      [dealer_no |-> "203", display_name |-> "Cool Co", phone |-> "555-0103",
       logo_url |-> "https://l/203"],
      [dealer_no |-> "204", display_name |-> "Dry Heat", phone |-> None,
       logo_url |-> "https://l/204"]>>

\* the members of the set of numbers S in rising order
RECURSIVE InOrder(_)
InOrder(S) ==
    IF S = {} THEN <<>>
    ELSE LET least == CHOOSE a \in S : \A b \in S : a <= b
         IN  <<least>> \o InOrder(S \ {least})

\* get_full_dealers and the --dealer and --skip filters: the dealers kept
Batch(kept) == [k \in 1..Cardinality(kept) |-> FullDealers[InOrder(kept)[k]]]

\* the statuses of a render at the service
RenderStatuses == {"planned", "rendering", "succeeded", "failed"}
FinalStatuses == {"succeeded", "failed"}

\* what main of batch_render.py leaves alone
OutsideRender == <<vars, call, load, scoring, pipeline, enrich, pds>>
OutsideRenderAtRest ==
    /\ MatcherAtRest /\ CallAtRest /\ LoadAtRest /\ ScoringAtRest /\ PipelineAtRest
    /\ EnrichAtRest /\ PdsAtRest

RenderInit ==
    /\ \E kept \in SUBSET (1..Len(FullDealers)) : batch = Batch(kept)
    /\ api = <<>>
    /\ renders = <<>>
    /\ completed = <<>>
    /\ failed = <<>>
    /\ tix = 1
    /\ polls = 0
    /\ rpc \in {"dry_run", "validate"}
    /\ OutsideRenderAtRest

\* --dry-run: the dealers are printed and main returns
render_dry_run ==
    /\ rpc = "dry_run"
    /\ rpc' = "returned"
    /\ UNCHANGED <<batch, api, renders, completed, failed, tix, polls, OutsideRender>>

\* a dealer without name, phone or logo stops main before any render
render_validate ==
    /\ rpc = "validate"
    /\ rpc' = IF \E k \in 1..Len(batch) :
                    \/ ~Truthy(batch[k].display_name)
                    \/ ~Truthy(batch[k].phone)
                    \/ ~Truthy(batch[k].logo_url)
              THEN "returned" ELSE "trigger"
    /\ UNCHANGED <<batch, api, renders, completed, failed, tix, polls, OutsideRender>>

\* phase 1, one dealer: trigger_render returns a render, or raises
trigger_render(ok) ==
    /\ rpc = "trigger"
    /\ tix <= Len(batch)
    /\ IF ok
       THEN /\ api' = (tix :> [status |-> "planned", url |-> "https://r/" \o ToString(tix)])
                         @@ api
            /\ renders' = (tix :> [dealer |-> tix, status |-> "planned"]) @@ renders
            /\ UNCHANGED failed
       ELSE /\ failed' = Append(failed, [dealer |-> tix, phase |-> "trigger"])
            /\ UNCHANGED <<api, renders>>
    /\ tix' = tix + 1
    /\ UNCHANGED <<batch, completed, polls, rpc, OutsideRender>>

\* after phase 1: with no render main returns, else the polling begins
render_triggered ==
    /\ rpc = "trigger"
    /\ tix > Len(batch)
    /\ rpc' = IF DOMAIN renders = {} THEN "exit" ELSE "poll"
    /\ UNCHANGED <<batch, api, renders, completed, failed, tix, polls, OutsideRender>>

\* the service moves a render on
service_step(id, status) ==
    /\ id \in DOMAIN api
    /\ \/ api[id].status = "planned" /\ status \in {"rendering", "failed"}
       \/ api[id].status = "rendering" /\ status \in FinalStatuses
    /\ api' = [api EXCEPT ![id].status = status]
    /\ UNCHANGED <<batch, renders, completed, failed, tix, polls, rpc, OutsideRender>>

\* the entries of the ids in S, in rising order
Entries(S, phase) ==
    [k \in 1..Cardinality(S) |-> [dealer |-> renders[InOrder(S)[k]].dealer, phase |-> phase]]

\* faulty variant of poll_round: a failed render is dropped without a record
poll_round_drops_failed(answered, uploaded) ==
    /\ rpc = "poll"
    /\ DOMAIN renders /= {}
    /\ answered \subseteq DOMAIN renders
    /\ LET succeeded == {id \in answered : api[id].status = "succeeded"}
           broken    == {id \in answered : api[id].status = "failed"}
           with_url  == {id \in succeeded : Truthy(api[id].url)}
       IN  /\ uploaded \subseteq with_url
           /\ failed' = failed \o Entries(with_url \ uploaded, "upload")
           /\ completed' = completed \o Entries(uploaded, "drive")
           /\ renders' = [id \in DOMAIN renders \ (succeeded \cup broken) |-> renders[id]]
    /\ polls' = IF polls < MaxPolls THEN polls + 1 ELSE polls
    /\ UNCHANGED <<batch, api, tix, rpc, OutsideRender>>

\* phase 2, one round of the while loop: get_render_status answers for the
\* renders in answered and raises for the others; the succeeded and failed
\* ones leave renders, the videos in uploaded reach the drive and the upload
\* of the other succeeded ones raises
poll_round(answered, uploaded) ==
    /\ rpc = "poll"
    /\ DOMAIN renders /= {}
    /\ answered \subseteq DOMAIN renders
    /\ LET succeeded == {id \in answered : api[id].status = "succeeded"}
           broken    == {id \in answered : api[id].status = "failed"}
           with_url  == {id \in succeeded : Truthy(api[id].url)}
       IN  /\ uploaded \subseteq with_url
           /\ failed' = failed \o Entries(broken, "render")
                               \o Entries(with_url \ uploaded, "upload")
           /\ completed' = completed \o Entries(uploaded, "drive")
           /\ renders' = [id \in DOMAIN renders \ (succeeded \cup broken) |-> renders[id]]
    /\ polls' = IF polls < MaxPolls THEN polls + 1 ELSE polls
    /\ UNCHANGED <<batch, api, tix, rpc, OutsideRender>>

\* renders is empty: the loop ends, the summary and the log are written
render_summary ==
    /\ rpc = "poll"
    /\ DOMAIN renders = {}
    /\ rpc' = "done"
    /\ UNCHANGED <<batch, api, renders, completed, failed, tix, polls, OutsideRender>>

RenderIds == 1..Len(FullDealers)

RenderNext ==
    \/ render_dry_run
    \/ render_validate
    \/ \E ok \in BOOLEAN : trigger_render(ok)
    \/ render_triggered
    \/ \E id \in RenderIds, status \in RenderStatuses : service_step(id, status)
    \/ \E answered, uploaded \in SUBSET RenderIds : poll_round(answered, uploaded)
    \/ render_summary

\* main goes on
RenderAdvance ==
    \/ render_dry_run
    \/ render_validate
    \/ \E ok \in BOOLEAN : trigger_render(ok)
    \/ render_triggered
    \/ render_summary

\* every render is finished by the service in the end
ServiceAdvance == \E id \in RenderIds, status \in RenderStatuses : service_step(id, status)

\* a round in which get_render_status answers for every pending render
AnsweredRound == \E uploaded \in SUBSET RenderIds : poll_round(DOMAIN renders, uploaded)

RenderSpec ==
    /\ RenderInit
    /\ [][RenderNext]_everything
    /\ WF_render(RenderAdvance)
    /\ WF_render(ServiceAdvance)
    /\ WF_render(AnsweredRound)

----------------------------------------------------------------------------
(* batch_render's main against the specification *)

\* how often the dealer at place k is in list
TimesIn(list, k) == Cardinality({e \in 1..Len(list) : list[e].dealer = k})

\* a render leaves renders only when the service holds it succeeded or failed
LeavesWhenFinal ==
    \A id \in DOMAIN renders :
       id \notin DOMAIN renders' => api[id].status \in FinalStatuses

\* once the loop is over every dealer is in one of the two lists, once
ExactlyOneList ==
    rpc \in {"done", "exit"} =>
       /\ \A k \in 1..Len(batch) : TimesIn(completed, k) + TimesIn(failed, k) = 1
       /\ Len(completed) + Len(failed) = Len(batch)

----------------------------------------------------------------------------
(* The lists of the indexes hold a pool entity once *)

\* no list of the index holds a pool entity at two places
IndexedOnce(index) ==
    \A key \in DOMAIN index :
       \A a, b \in 1..Len(index[key]) : index[key][a].id = index[key][b].id => a = b

EntityOncePerKey ==
    /\ IndexedOnce(phone_index)
    /\ IndexedOnce(email_index)
    /\ IndexedOnce(domain_index)
    /\ IndexedOnce(name_city_state_index)

\* a step that reports the dealer ambiguous has at least two pool entities
\* as candidates, and counts them
AmbiguousOverTwoEntities ==
    Len(ambiguous') > Len(ambiguous) =>
       /\ Cardinality(Unconsumed(pc, dealer)) >= 2
       /\ Last(ambiguous').candidate_count = Cardinality(Unconsumed(pc, dealer))

\* the pool entity has a phone or an email more than once in its contact
\* fields
RepeatsContact(p) ==
    \/ Len(SeqOf(p, "phones")) + (IF Truthy(Get(p, "primary_phone")) THEN 1 ELSE 0)
          > Cardinality(all_phones(p)) /\ all_phones(p) /= {}
    \/ Len(SeqOf(p, "emails")) + (IF Truthy(Get(p, "primary_email")) THEN 1 ELSE 0)
          > Cardinality(all_emails(p)) /\ all_emails(p) /= {}

\* C30: in the indexes of build_prospect_indexes a pool entity is at most
\* once in the list of a key, also when a phone or an email is repeated in
\* its contact fields; so an ambiguous result always has two or more
\* distinct pool entities as candidates
NoSelfAmbiguity == []EntityOncePerKey /\ [][AmbiguousOverTwoEntities]_everything

\* a pool entity with a repeated phone is the one candidate of a dealer with
\* that phone, and is matched with high confidence
NoSelfAmbiguityWitness ==
    /\ pc = "done"
    /\ ambiguous = <<>>
    /\ \E k \in 1..Len(prospects), r \in 1..Len(high_confidence) :
          /\ RepeatsContact(prospects[k])
          /\ high_confidence[r].prospect_id = prospects[k].id
          /\ high_confidence[r].match_reason = "phone_exact"
          /\ Len(phone_index[high_confidence[r].matched_value]) = 1

====
